---- MODULE Spec2Model ----
(***************************************************************************)
(* Verification model of the multi-persona conversational agent           *)
(* supervisor (src/langgraph).                                             *)
(*                                                                         *)
(* Four state machines share this module:                                  *)
(*   SpecAgent - one run of the per-persona agent subgraph                 *)
(*               (orchestrator, trigger_analysis, decision_maker,          *)
(*               text_generator, styler, validator);                       *)
(*   Spec      - the supervisor graph over several ticks (persona nodes,   *)
(*               scheduler, executor) as build_supervisor_graph wires it;  *)
(*   SpecGated - the supervisor graph with the human approval gate and its *)
(*               file IPC, as driven by invoke_graph_with_hitl;            *)
(*   SpecPoll  - the run loop's message polling with the seen-ids ring.    *)
(***************************************************************************)
EXTENDS Integers, Sequences, FiniteSets, TLC

VARIABLES
    \* ---- agent subgraph (AgentState and the graph engine's position) ----
    agent_state,              \* the AgentState dict
    active,                   \* node the engine runs next, END or "raised"
    text_generator_entries,   \* history: times text_generator was entered
    validator_log             \* history: the validator's verdicts of this run

agent_vars == <<agent_state, active, text_generator_entries, validator_log>>

VARIABLES
    \* ---- supervisor graph and run loop (SupervisorState + positions) ----
    pc,                  \* position of the run loop / supervisor graph
    tick,                \* number of graph invocations started so far
    hitl_enabled,        \* hitl.enabled of supervisor_config.json
    recent_messages,     \* SupervisorState.recent_messages (newest first)
    selected_actions,    \* SupervisorState.selected_actions
    execution_queue,     \* SupervisorState.execution_queue
    agents_done,         \* persona nodes finished in the current fan-out
    resumed,             \* this invocation was interrupted and resumed
    pending_file,        \* data/hitl_state/pending.json
    response_file,       \* data/hitl_state/response.json
    operator_response,   \* value get_response() handed to Command(resume=)
    ui_observed,         \* request the approval UI has read and not answered
    dispatch_log,        \* history: calls made to the chat transport
    agents_recent_actions  \* SupervisorState.agents_recent_actions

sup_vars == <<pc, tick, hitl_enabled, recent_messages, selected_actions,
              execution_queue, agents_done, resumed, pending_file,
              response_file, operator_response, ui_observed, dispatch_log,
              agents_recent_actions>>

\* the supervisor variables the run loop's polling leaves alone
graph_vars == <<hitl_enabled, selected_actions, execution_queue, agents_done,
                resumed, pending_file, response_file, operator_response,
                ui_observed, dispatch_log, agents_recent_actions>>

VARIABLES
    \* ---- run loop polling (run_supervisor.py, memory/group.py) ----
    chat,                \* the chat at the transport: chat[id] tells whether
                         \* message id was sent by one of the personas
    fetch_limit,         \* polling.telegram_fetch_limit
    group_history,       \* ids stored in group_history.json, in file order
    seen_message_ids,    \* the deque of message ids already admitted
    new_messages,        \* new_messages of the poll in progress
    observed_ids,        \* history: ids the run loop has read so far
    processed_ids        \* history: ids marked processed in earlier ticks

poll_vars == <<chat, fetch_limit, group_history, seen_message_ids,
               new_messages, observed_ids, processed_ids>>

VARIABLES
    \* ---- the graph engine running the compiled supervisor graph ----
    step_nodes,          \* nodes of the superstep in progress
    started,             \* nodes of the superstep that have started
    finished,            \* nodes of the superstep that have returned
    next_nodes,          \* nodes the returned nodes have triggered
    engine_tick,         \* graph invocations started so far
    stage_log            \* history: start and finish events of the nodes

engine_vars == <<step_nodes, started, finished, next_nodes, engine_tick,
                 stage_log>>

VARIABLES
    \* ---- component_B and the group_sentiment channel ----
    group_sentiment,       \* SupervisorState.group_sentiment
    node_group_sentiment,  \* state['group_sentiment'] of the dict the node got
    model_responses        \* history: responses of the node's model calls

emotion_vars == <<group_sentiment, node_group_sentiment, model_responses>>

VARIABLES
    \* ---- the selected_actions channel under arbitrary updates ----
    channel_initial,     \* value of the channel before the first update
    channel_updates,     \* history: updates written to the channel so far
    merge_call           \* history: the last call of merge_recent_actions

reducer_vars == <<channel_initial, channel_updates, merge_call>>

VARIABLES
    \* ---- component_C and the participant files ----
    personality_snapshots, \* per user id, personality_snapshots of the file
    message_count,         \* per user id, messages of the user on disk
    stop_reanalysis,       \* STOP_REANALYSIS_WHEN_CONFIDENT of the config
    last_analysis          \* history: users with new messages, users skipped

personality_vars == <<personality_snapshots, message_count, stop_reanalysis,
                      last_analysis>>

vars == <<agent_vars, sup_vars, poll_vars, engine_vars, emotion_vars,
          reducer_vars, personality_vars>>

(***************************************************************************)
(* Bounds                                                                  *)
(***************************************************************************)
\* cap on text_generator entries explored in one subgraph run
MaxGenEntries == 6

\* graph invocations (ticks) explored in one run of the supervisor
MaxTicks == 2

\* graph invocations of one run of the gated supervisor
MaxGatedTicks == 1

\* capacity of the seen-ids ring, standing for deque(maxlen=1000)
RingCap == 3

\* messages ever posted to the chat
MaxChat == 5

\* polls of the main loop
MaxPolls == 3

\* polling.max_recent_messages
MaxRecent == 4

\* messages, and distinct ids, in the recent_messages given to component_B
MaxEmotionMsgs == 3

MaxExecItems == 2

\* graph invocations explored by the engine's specification
MaxEngineTicks == 2

\* updates written to the selected_actions channel in one behaviour
MaxUpdates == 3

\* longest list written to the channel in one update
MaxUpdateLen == 2

\* longest list of records one agent has in agents_recent_actions
MaxRecords == 2

\* distinct message ids in the recent_messages given to component_B
MaxEmotionIds == 2

\* runs of component_C in one behaviour
MaxPersonalityTicks == 3

(***************************************************************************)
(* Generic helpers                                                         *)
(***************************************************************************)
\* dict.update: keys of u replace those of s
Merge(s, u) == [k \in DOMAIN s |-> IF k \in DOMAIN u THEN u[k] ELSE s[k]]

\* Python None for string-valued slots
NULL == "null"

\* Python truthiness of an Optional[str]
Falsy(x) == x = NULL \/ x = ""

(***************************************************************************)
(* Agent subgraph: constants and input domains                             *)
(***************************************************************************)
MAX_RETRIES == 3
END == "__end__"
RAISED == "raised"

\* values an Optional[dict] selected_action can take
NoneAction ==
    [present |-> FALSE, id |-> "", status |-> "", reason |-> "",
     styled_response |-> NULL, validation_note |-> FALSE,
     agent_name |-> "", phone_number |-> NULL]

\* trigger catalog of the persona (triggers JSON): id -> suggested_actions
TriggerCatalog == {"direct_question", "no_suggestions", "dangling"}

suggested_actions(trigger_id) ==
    CASE trigger_id = "direct_question" -> {"answer_question"}
      [] trigger_id = "dangling"        -> {"missing_action"}
      [] OTHER                          -> {}

\* action catalog of the persona (actions JSON)
ActionCatalog == {"answer_question", "add_reaction"}

\* the id field of the trigger-analysis model's JSON answer; NULL is a JSON
\* null id, which result.get('id', 'neutral') passes through as None
LLMTriggerIds ==
    {"neutral", "Neutral_chat", "ERROR", "direct_question",
     "no_suggestions", "dangling", "unlisted", NULL}

\* the id field of the decision-maker model's JSON answer ("" = missing)
LLMActionIds == {"answer_question", "unsuggested_action", ""}

\* text a model call can yield after .strip(); NULL = the call raised
LLMTexts == {"text", "", NULL}

\* personas: with or without an 'agent_name' key
Personas ==
    {[first_name |-> "Tamar", agent_name |-> "Tamar", phone_number |-> "+1"],
     [first_name |-> "Tamar", agent_name |-> NULL, phone_number |-> "+1"]}

\* variant: the default is used whatever the persona holds
PersonaAgentNameDefault(persona) == "unknown"

\* selected_persona.get('agent_name', 'unknown')
PersonaAgentName(persona) ==
    IF persona.agent_name = NULL THEN "unknown" ELSE persona.agent_name

(***************************************************************************)
(* orchestrator_node: returns the update dict                              *)
(***************************************************************************)
TerminalAction(state, status, reason) ==
    [NoneAction EXCEPT !.present = TRUE, !.status = status,
                       !.reason = reason,
                       !.agent_name = PersonaAgentName(state.selected_persona)]

\* variant: one more retry before giving up
RetriesExhaustedLate(retry_count) == retry_count > MAX_RETRIES

\* retry_count >= MAX_RETRIES
RetriesExhausted(retry_count) == retry_count >= MAX_RETRIES

\* TRUE when the orchestrator raises instead of returning: a JSON-null
\* trigger id reaches trigger_id.lower()
orchestrator_raises(state) ==
    /\ state.current_node = "trigger_analysis"
    /\ state.detected_trigger.present
    /\ state.detected_trigger.id = NULL

orchestrator_node(state) ==
    LET cur == state.current_node
        persona == state.selected_persona
    IN
    IF cur = NULL \/ cur = "orchestrator" THEN
        [current_node |-> "orchestrator", next_node |-> "trigger_analysis"]
    ELSE IF cur = "trigger_analysis" THEN
        IF ~state.detected_trigger.present THEN
            [selected_action |->
                 TerminalAction(state, "no_action_needed", "no_trigger_detected"),
             current_node |-> "orchestrator", next_node |-> END]
        \* 'neutral' in trigger_id.lower()
        ELSE IF state.detected_trigger.id \in {"neutral", "Neutral_chat"} THEN
            [selected_action |->
                 TerminalAction(state, "no_action_needed", "neutral_trigger"),
             current_node |-> "orchestrator", next_node |-> END]
        ELSE
            [current_node |-> "orchestrator", next_node |-> "decision_maker"]
    ELSE IF cur = "decision_maker" THEN
        IF ~state.selected_action.present THEN
            [selected_action |->
                 TerminalAction(state, "no_action_needed", "no_action_selected"),
             current_node |-> "orchestrator", next_node |-> END]
        ELSE
            [current_node |-> "orchestrator", next_node |-> "text_generator"]
    ELSE IF cur = "text_generator" THEN
        IF Falsy(state.generated_response) THEN
            [selected_action |->
                 TerminalAction(state, "error", "text_generation_failed"),
             current_node |-> "orchestrator", next_node |-> END]
        ELSE
            [current_node |-> "orchestrator", next_node |-> "styler"]
    ELSE IF cur = "styler" THEN
        IF Falsy(state.styled_response) THEN
            [selected_action |->
                 TerminalAction(state, "error", "styling_failed"),
             current_node |-> "orchestrator", next_node |-> END]
        ELSE
            [current_node |-> "orchestrator", next_node |-> "validator"]
    ELSE IF cur = "validator" THEN
        IF state.validation.approved THEN
            [selected_action |->
                 [state.selected_action EXCEPT
                      !.present = TRUE,
                      !.status = "success",
                      !.styled_response = state.styled_response,
                      !.agent_name = PersonaAgentName(persona),
                      !.phone_number = persona.phone_number],
             retry_count |-> 0,
             current_node |-> "orchestrator", next_node |-> END]
        ELSE IF RetriesExhausted(state.retry_count) THEN
            [selected_action |->
                 [state.selected_action EXCEPT
                      !.present = TRUE,
                      !.status = "max_retries_reached",
                      !.styled_response = state.styled_response,
                      !.validation_note = TRUE,
                      !.agent_name = PersonaAgentName(persona)],
             retry_count |-> 0,
             current_node |-> "orchestrator", next_node |-> END]
        ELSE
            [current_node |-> "orchestrator", next_node |-> "text_generator"]
    ELSE
        [selected_action |-> TerminalAction(state, "error", "unknown_state"),
         current_node |-> "orchestrator", next_node |-> END]

\* variant: a retry goes back to the styler with the old text
route_from_orchestrator_restyles(state) ==
    IF state.next_node = NULL THEN END
    ELSE IF state.next_node = "text_generator" /\ state.retry_count > 0
    THEN "styler"
    ELSE state.next_node

\* state.get('next_node', END)
route_from_orchestrator(state) ==
    IF state.next_node = NULL THEN END ELSE state.next_node

(***************************************************************************)
(* Worker nodes: each returns the set of update dicts it can return, one   *)
(* per outcome of its model call                                           *)
(***************************************************************************)
Trigger(id) == [present |-> TRUE, id |-> id]
trigger_analysis_node(state) ==
    IF state.recent_messages = <<>> THEN
        {[detected_trigger |-> Trigger("neutral"),
          current_node |-> "trigger_analysis"]}
    ELSE IF state.triggers = {} THEN
        {[detected_trigger |-> Trigger("ERROR"),
          current_node |-> "trigger_analysis"]}
    ELSE
        \* parsed answer, or JSON parse failure / exception -> ERROR
        {[detected_trigger |-> Trigger(id),
          current_node |-> "trigger_analysis"] : id \in LLMTriggerIds}

\* decision_maker_node returns None (no update at all) on its early exits:
\* the in-place write state['selected_action'] = None is made on the
\* node's private copy of the state and does not reach the graph state
NoUpdate == [no_update |-> TRUE]

decision_maker_node(state) ==
    LET trigger_id == IF state.detected_trigger.present
                      THEN state.detected_trigger.id ELSE "neutral"
        suggested_action_ids ==
            IF trigger_id \in state.triggers
            THEN suggested_actions(trigger_id) ELSE {}
        found == suggested_action_ids \cap ActionCatalog
    IN
    IF trigger_id = "neutral" THEN {NoUpdate}
    ELSE IF trigger_id = "ERROR" THEN {NoUpdate}
    ELSE IF suggested_action_ids = {} THEN {NoUpdate}
    ELSE IF found = {} THEN {NoUpdate}
    ELSE
        \* "" also stands for a JSON parse failure or an exception
        {[selected_action |->
              IF action_id = "" THEN NoneAction
              ELSE [NoneAction EXCEPT !.present = TRUE, !.id = action_id],
          current_node |-> "decision_maker"] : action_id \in LLMActionIds}

text_generator_node(state) ==
    IF ~state.selected_action.present \/ state.selected_action.id = "" THEN
        {[generated_response |-> NULL, current_node |-> "text_generator"]}
    ELSE
        {[generated_response |-> t, current_node |-> "text_generator"]
             : t \in LLMTexts}

styler_node(state) ==
    IF Falsy(state.generated_response) THEN
        {[styled_response |-> NULL, current_node |-> "styler"]}
    ELSE
        {[styled_response |-> t, current_node |-> "styler"] : t \in LLMTexts}

\* a validator that forgets to advance retry_count on a rejection
RejectedRetryCountStuck(retry_count) == retry_count

\* retry_count written on a rejection
RejectedRetryCount(retry_count) == retry_count + 1

validator_node(state) ==
    IF Falsy(state.styled_response) THEN
        {[validation |-> [approved |-> FALSE],
          validation_feedback |-> "No styled response was generated",
          current_node |-> "validator"]}
    ELSE IF state.retry_count >= MAX_RETRIES THEN
        {[validation |-> [approved |-> TRUE],
          validation_feedback |-> NULL,
          retry_count |-> 0,
          current_node |-> "validator"]}
    ELSE
        {[validation |-> [approved |-> TRUE],
          validation_feedback |-> NULL,
          retry_count |-> 0,
          current_node |-> "validator"]}
        \cup
        \* rejected, unparseable answer, or exception
        {[validation |-> [approved |-> FALSE],
          validation_feedback |-> e,
          retry_count |-> RejectedRetryCount(state.retry_count),
          current_node |-> "validator"]
             \* the model's explanation ("" = none given) or the parse failure
             : e \in {"off-goal", "", "Validator response could not be parsed"}}


(***************************************************************************)
(* Supervisor state: reducers and records                                  *)
(***************************************************************************)
\* personas configured in supervisor_config.json (persona first names)
Agents == {"Tamar", "Matan"}

\* persona phone_number
PhoneOf(agent) == IF agent = "Tamar" THEN "+1" ELSE "+2"

\* an update written to the selected_actions channel: a list, or the
\* string sentinel "CLEAR"
ListUpdate(items) == [clear |-> FALSE, items |-> items]
CLEAR == [clear |-> TRUE, items |-> <<>>]

\* variant: a list update goes in front of the current value
add_or_clear_prepends(current, new) ==
    IF new.clear THEN <<>> ELSE new.items \o current

\* reducer of SupervisorState.selected_actions; the channel holds a list in
\* every state of the graph (the run loop's input sets selected_actions=[])
add_or_clear(current, new) ==
    IF new.clear THEN <<>> ELSE current \o new.items

\* a file of the approval IPC that does not exist
Absent == [present |-> FALSE, request |-> 0, decisions |-> <<>>]

\* no operator response held by the run loop
NoResponse == <<>>

\* supervisor variables while only the agent subgraph is studied
SupervisorAtRest ==
    /\ pc = "off"
    /\ tick = 0
    /\ hitl_enabled = FALSE
    /\ recent_messages = <<>>
    /\ selected_actions = <<>>
    /\ execution_queue = <<>>
    /\ agents_done = {}
    /\ resumed = FALSE
    /\ pending_file = Absent
    /\ response_file = Absent
    /\ operator_response = NoResponse
    /\ ui_observed = 0
    /\ dispatch_log = <<>>
    /\ agents_recent_actions = [agent \in {"Tamar", "Matan"} |-> <<>>]

\* component_B's variables while other parts are studied
EmotionAtRest ==
    /\ group_sentiment = ""
    /\ node_group_sentiment = ""
    /\ model_responses = <<>>

\* the reducer's history while other parts are studied
ReducerAtRest ==
    /\ channel_initial = <<>>
    /\ channel_updates = <<>>
    /\ merge_call = [current |-> <<>>, new |-> <<>>, current_after |-> <<>>]

\* component_C's variables while other parts are studied
PersonalityAtRest ==
    /\ personality_snapshots = <<>>
    /\ message_count = <<>>
    /\ stop_reanalysis = TRUE
    /\ last_analysis = [new_user_ids |-> {}, skipped |-> {}]

\* the engine's variables while other parts are studied
EngineAtRest ==
    /\ step_nodes = {}
    /\ started = {}
    /\ finished = {}
    /\ next_nodes = {}
    /\ engine_tick = 0
    /\ stage_log = <<>>

\* polling variables while the graphs alone are studied
PollAtRest ==
    /\ chat = <<>>
    /\ fetch_limit = 1
    /\ group_history = <<>>
    /\ seen_message_ids = <<>>
    /\ new_messages = <<>>
    /\ observed_ids = {}
    /\ processed_ids = {}

(***************************************************************************)
(* The agent graph (build_agent_graph): START -> orchestrator, conditional *)
(* edges out of the orchestrator, every worker back to the orchestrator    *)
(***************************************************************************)
\* AgentState as built by agent_node before agent_graph.invoke
InitialAgentState(persona, msgs, triggers) ==
    [recent_messages |-> msgs,
     triggers |-> triggers,
     selected_persona |-> persona,
     detected_trigger |-> [present |-> FALSE, id |-> ""],
     selected_action |-> NoneAction,
     generated_response |-> NULL,
     styled_response |-> NULL,
     validation |-> [approved |-> FALSE],
     validation_feedback |-> NULL,
     retry_count |-> 0,
     current_node |-> NULL,
     next_node |-> NULL]

InitAgent ==
    /\ \E persona \in Personas, msgs \in {<<>>, <<1>>},
          triggers \in {{}, TriggerCatalog} :
          agent_state = InitialAgentState(persona, msgs, triggers)
    /\ active = "orchestrator"
    /\ text_generator_entries = 0
    /\ validator_log = <<>>
    /\ EngineAtRest
    /\ EmotionAtRest
    /\ PersonalityAtRest
    /\ ReducerAtRest
    /\ SupervisorAtRest
    /\ PollAtRest

RunOrchestrator ==
    /\ active = "orchestrator"
    /\ IF orchestrator_raises(agent_state)
       THEN /\ active' = RAISED
            /\ UNCHANGED agent_state
       ELSE /\ agent_state' = Merge(agent_state, orchestrator_node(agent_state))
            /\ active' = route_from_orchestrator(agent_state')
    /\ UNCHANGED <<text_generator_entries, validator_log, sup_vars, poll_vars, engine_vars,
                   emotion_vars, reducer_vars, personality_vars>>

ApplyWorker(name, updates) ==
    /\ active = name
    /\ \E u \in updates :
          agent_state' = IF u = NoUpdate THEN agent_state
                         ELSE Merge(agent_state, u)
    /\ active' = "orchestrator"

RunTriggerAnalysis ==
    /\ ApplyWorker("trigger_analysis", trigger_analysis_node(agent_state))
    /\ UNCHANGED <<text_generator_entries, validator_log, sup_vars, poll_vars, engine_vars,
                   emotion_vars, reducer_vars, personality_vars>>

RunDecisionMaker ==
    /\ ApplyWorker("decision_maker", decision_maker_node(agent_state))
    /\ UNCHANGED <<text_generator_entries, validator_log, sup_vars, poll_vars, engine_vars,
                   emotion_vars, reducer_vars, personality_vars>>

RunTextGenerator ==
    /\ text_generator_entries < MaxGenEntries
    /\ ApplyWorker("text_generator", text_generator_node(agent_state))
    /\ text_generator_entries' = text_generator_entries + 1
    /\ UNCHANGED <<validator_log, sup_vars, poll_vars, engine_vars,
                   emotion_vars, reducer_vars, personality_vars>>

RunStyler ==
    /\ ApplyWorker("styler", styler_node(agent_state))
    /\ UNCHANGED <<text_generator_entries, validator_log, sup_vars, poll_vars, engine_vars,
                   emotion_vars, reducer_vars, personality_vars>>

\* how the validator came to its verdict
Verdict(state, update) ==
    IF Falsy(state.styled_response) THEN "no_response"
    ELSE IF state.retry_count >= MAX_RETRIES THEN "auto_approved"
    ELSE IF update.validation.approved THEN "approved"
    ELSE "rejected"

RunValidator ==
    /\ active = "validator"
    /\ \E u \in validator_node(agent_state) :
          /\ agent_state' = Merge(agent_state, u)
          /\ validator_log' = Append(validator_log, Verdict(agent_state, u))
    /\ active' = "orchestrator"
    /\ UNCHANGED <<text_generator_entries, sup_vars, poll_vars, engine_vars,
                   emotion_vars, reducer_vars, personality_vars>>

NextAgent ==
    \/ RunOrchestrator
    \/ RunTriggerAnalysis
    \/ RunDecisionMaker
    \/ RunTextGenerator
    \/ RunStyler
    \/ RunValidator

SpecAgent == InitAgent /\ [][NextAgent]_vars

\* the graph engine keeps stepping while a node is scheduled
FairSpecAgent == SpecAgent /\ WF_vars(NextAgent)

(***************************************************************************)
(* Supervisor graph: persona nodes                                         *)
(***************************************************************************)
\* how a persona's subgraph run can end, as agent_node sees it: the status
\* of the final selected_action, or an exception out of agent_graph.invoke
AgentOutcomes ==
    {"no_action_needed", "success", "max_retries_reached", "error", RAISED}

\* the action_entry agent_node appends for a run of persona agent started
\* in invocation t
ActionEntry(agent, status, action_id, styled, t) ==
    [agent_name |-> agent,
     status |-> status,
     selected_action |-> [id |-> action_id],
     styled_response |-> styled,
     phone_number |-> PhoneOf(agent),
     origin |-> t]

\* selected_action['id'] of a run that ended with the given status; the
\* terminal dict of an error has no id.  The trigger that led to an
\* add_reaction names a target message with a well-formed timestamp
SelectedActionIds(status) ==
    CASE status = "success"             -> {"answer_question", "add_reaction"}
      [] status = "max_retries_reached" -> {"answer_question"}
      [] OTHER                          -> {""}

\* result.get("styled_response", ""): a run that fails at its first
\* generation has none, one that fails on a retry still holds the styled
\* text of the rejected attempt
StyledResponses(status) ==
    IF status = "error" THEN {NULL, "text"} ELSE {"text"}

\* merge_recent_actions: the returned dict; every agent's new records are
\* appended to its list, a key missing from current starts from []
merge_recent_actions(current, new) ==
    [agent \in DOMAIN current \cup DOMAIN new |->
        (IF agent \in DOMAIN current THEN current[agent] ELSE <<>>)
            \o (IF agent \in DOMAIN new THEN new[agent] ELSE <<>>)]

\* the dict passed as current, as it is after the call: result =
\* dict(current) copies the keys but shares the lists, and
\* result[agent_name].extend(actions) appends to the shared list in place
current_after_merge(current, new) ==
    [agent \in DOMAIN current |->
        IF agent \in DOMAIN new THEN current[agent] \o new[agent]
        ELSE current[agent]]

\* the agents_recent_actions part of agent_node's update: one action_record
\* for an approved outcome, no update otherwise
agent_node_records(agent, status, action_id, styled) ==
    [name \in {"Tamar", "Matan"} |->
        IF name = agent /\ status # "no_action_needed"
           /\ status = "approved by validator"
        THEN <<[action_id |-> action_id, action_content |-> styled]>>
        ELSE <<>>]

\* the update dict of agent_node's Command
agent_node_update(agent, status, action_id, styled, t) ==
    IF status = "no_action_needed"
    THEN ListUpdate(<<>>)
    ELSE ListUpdate(<<ActionEntry(agent, status, action_id, styled, t)>>)

(***************************************************************************)
(* scheduler_node                                                          *)
(***************************************************************************)
\* variant: only 'no_action_needed' is skipped
SchedulableUnlessNoAction(action) == action.status # "no_action_needed"

\* status in ['success', 'max_retries_reached']
Schedulable(action) == action.status \in {"success", "max_retries_reached"}

\* variant: the valid actions, newest first
valid_actions_reversed(actions) ==
    LET kept == SelectSeq(actions, Schedulable)
    IN [i \in 1..Len(kept) |-> kept[Len(kept) + 1 - i]]

\* the filter loop: valid_actions in the order of selected_actions
valid_actions(actions) == SelectSeq(actions, Schedulable)

\* Optional[dict] target_message of a queue item
NoTarget == [present |-> FALSE, timestamp |-> ""]
\* the queue_item built for the i-th valid action; slot stands for its
\* scheduled_time (strictly increasing along the queue).  The entry has no
\* top-level 'id' key (the id is inside entry['selected_action']), so
\* action.get('id', 'unknown') is 'unknown'; the item has no 'action_id'
\* and no 'target_message' key, which readers default to 'unknown' and None
QueueItem(action, i) ==
    [agent_name |-> action.agent_name,
     phone_number |-> action.phone_number,
     action |-> [id |-> "unknown"],
     action_content |-> action.styled_response,
     action_id |-> "unknown",
     target_message |-> NoTarget,
     status |-> "pending",
     slot |-> i,
     origin |-> action.origin]

MarkProcessed(messages) ==
    [i \in 1..Len(messages) |-> [messages[i] EXCEPT !.processed = TRUE]]

\* scheduler_node returns the whole state dict it was given, after writing
\* into it; every key of it is then an update to its channel
scheduler_node(state) ==
    LET valid == valid_actions(state.selected_actions)
    IN
    IF state.selected_actions = <<>> THEN
        [state EXCEPT !.execution_queue = <<>>,
                      !.selected_actions = ListUpdate(state.selected_actions)]
    ELSE IF valid = <<>> THEN
        [state EXCEPT !.execution_queue = <<>>,
                      !.selected_actions = ListUpdate(state.selected_actions)]
    ELSE
        [state EXCEPT
            !.execution_queue =
                [i \in 1..Len(valid) |-> QueueItem(valid[i], i)],
            !.recent_messages = MarkProcessed(state.recent_messages),
            \* state['selected_actions'] = [] before the return
            !.selected_actions = ListUpdate(<<>>)]

(***************************************************************************)
(* human_approval_node and process_approval_response                       *)
(***************************************************************************)
pending_actions(queue) == SelectSeq(queue, LAMBDA a : a.status = "pending")

\* what the operator can decide about one agent's item; "missing" = the
\* response holds no decision for that agent_name
Decision(decision, edited_content, replacement_message) ==
    [decision |-> decision, edited_content |-> edited_content,
     replacement_message |-> replacement_message]

\* variant: an item without a decision counts as approved
DecisionTypeDefaultApproved(decision) ==
    IF decision.decision = "missing" THEN "approved" ELSE decision.decision

\* decision.get('decision', 'rejected'), the decision looked up by agent_name
DecisionType(decision) ==
    IF decision.decision = "missing" THEN "rejected" ELSE decision.decision

RECURSIVE process_approval_response(_, _)
process_approval_response(queue, response) ==
    IF queue = <<>> THEN <<>>
    ELSE
        LET action == Head(queue)
            decision == response[action.agent_name]
            kept ==
                IF action.status # "pending" THEN <<>>
                ELSE IF DecisionType(decision) = "approved" THEN
                    IF ~Falsy(decision.edited_content)
                    THEN <<[action EXCEPT !.action_content = decision.edited_content]>>
                    ELSE <<action>>
                ELSE IF DecisionType(decision) = "rejected" THEN
                    IF ~Falsy(decision.replacement_message)
                    THEN <<[action EXCEPT
                               !.action_content = decision.replacement_message,
                               !.action_id = "operator_replacement"]>>
                    ELSE <<>>
                ELSE <<>>
        IN kept \o process_approval_response(Tail(queue), response)

(***************************************************************************)
(* executor_node                                                           *)
(***************************************************************************)
\* get_ready_actions: pending items whose scheduled_time has passed, with
\* now standing at the scheduled time of slot elapsed
get_ready_actions(queue, elapsed) ==
    SelectSeq(queue, LAMBDA a : a.status = "pending" /\ a.slot <= elapsed)

\* timestamps a target message or the newest message can carry: two
\* well-formed ones, one that strptime rejects, and none
Timestamps == {"2024-05-01 10:00:00", "2024-05-01 10:00:07", "10:00", ""}

\* convert_timestamp_to_iso: "YYYY-MM-DD HH:MM:SS" to
\* "YYYY-MM-DDTHH:MM:SS.000Z", None for anything else
convert_timestamp_to_iso(timestamp_str) ==
    CASE timestamp_str = "2024-05-01 10:00:00" -> "2024-05-01T10:00:00.000Z"
      [] timestamp_str = "2024-05-01 10:00:07" -> "2024-05-01T10:00:07.000Z"
      [] OTHER                                 -> NULL

\* get_most_recent_message_timestamp: the date of the first message, None
\* when there is no message or the message has no 'date' key
get_most_recent_message_timestamp(messages) ==
    IF messages = <<>> THEN NULL
    ELSE IF "date" \in DOMAIN messages[1] THEN messages[1].date
    ELSE NULL

\* variant: the reply timestamp is kept for the most recent message too
reply_timestamp_always(action, most_recent_timestamp) ==
    IF ~action.target_message.present THEN NULL
    ELSE convert_timestamp_to_iso(action.target_message.timestamp)

\* reply_timestamp as executor_node computes it for one action
reply_timestamp(action, most_recent_timestamp) ==
    LET timestamp_str == action.target_message.timestamp
        converted == convert_timestamp_to_iso(timestamp_str)
    IN
    IF ~action.target_message.present \/ timestamp_str = "" THEN NULL
    ELSE IF converted = NULL THEN NULL
    ELSE IF action.action_id # "add_reaction"
            /\ timestamp_str = most_recent_timestamp THEN NULL
    ELSE converted

\* variant: a reaction is sent whether or not it has a timestamp
DispatchableWithoutTimestamp(action, most_recent_timestamp) ==
    /\ ~Falsy(action.phone_number)
    /\ ~Falsy(action.action_content)

\* items of ready_actions for which the transport is called
Dispatchable(action, most_recent_timestamp) ==
    /\ ~Falsy(action.phone_number)
    /\ ~Falsy(action.action_content)
    /\ action.action_id = "add_reaction" =>
           reply_timestamp(action, most_recent_timestamp) # NULL

\* the transport function called for the action and the timestamp passed
TransportCall(action, most_recent_timestamp) ==
    [agent_name |-> action.agent_name, origin |-> action.origin,
     action_id |-> action.action_id,
     endpoint |-> IF action.action_id = "add_reaction"
                  THEN "add_reaction_to_message"
                  ELSE "send_telegram_message",
     timestamp |-> reply_timestamp(action, most_recent_timestamp)]

\* where the loop over the called actions can be left by an exception: 0
\* for no exception, or the position of a call of add_reaction_to_message,
\* whose requests.post is outside any try.  send_telegram_message catches
\* the request's exception and returns an error result, which the executor
\* logs before it goes on
RaisePoints(called) ==
    {0} \cup {i \in 1..Len(called) : called[i].action_id = "add_reaction"}

\* variant: the empty list in place of the sentinel
ExecutorSelectedActionsEmptyList == ListUpdate(<<>>)

\* the selected_actions update returned after the ready actions were run
ExecutorSelectedActionsUpdate == CLEAR

(***************************************************************************)
(* Approval IPC (approval_state.py) and the approval UI                    *)
(***************************************************************************)
\* how a file operation can end
IOOutcomes == {"ok", "fails"}

\* position of the run loop after an OSError has left run_supervisor_loop
IO_RAISED == "io_raised"

\* _write_json(filepath, data): the file holds data afterwards; an IOError
\* is caught and printed, and the file is left as it was
write_json(file, data, io) == IF io = "ok" THEN data ELSE file

\* filepath.unlink() is called only on a file that exists, outside the try
UnlinkOutcomes(file) == IF file.present THEN IOOutcomes ELSE {"ok"}

\* variant: the file is left in place
write_json_none_keeps(file) == file

\* _write_json(filepath, None): the file is deleted
write_json_none(file) == Absent

\* variant: a loop test that gives up waiting
has_response_or_timeout(file) == TRUE

\* has_response(): the response file exists and parses
has_response(file) == file.present

\* responses the operator can submit: one decision per agent name
OperatorResponses ==
    {[Tamar |-> Decision("approved", "edited", NULL),
      Matan |-> Decision("rejected", NULL, "replacement")],
     [Tamar |-> Decision("rejected", NULL, NULL),
      Matan |-> Decision("hold", NULL, NULL)],
     [Tamar |-> Decision("missing", NULL, NULL),
      Matan |-> Decision("approved", NULL, NULL)],
     [Tamar |-> Decision("rejected", NULL, "replacement"),
      Matan |-> Decision("missing", NULL, NULL)]}

(***************************************************************************)
(* Supervisor graph and run loop: actions                                  *)
(***************************************************************************)
Init ==
    /\ pc = "idle"
    /\ tick = 0
    /\ hitl_enabled \in BOOLEAN
    /\ recent_messages = <<>>
    /\ selected_actions = <<>>
    /\ execution_queue = <<>>
    /\ agents_done = {}
    /\ resumed = FALSE
    /\ pending_file = Absent
    /\ response_file = Absent
    /\ operator_response = NoResponse
    /\ ui_observed = 0
    /\ dispatch_log = <<>>
    /\ agents_recent_actions = [agent \in {"Tamar", "Matan"} |-> <<>>]
    /\ agent_state = InitialAgentState(CHOOSE p \in Personas : p.agent_name = NULL,
                                       <<>>, {})
    /\ active = END
    /\ text_generator_entries = 0
    /\ validator_log = <<>>
    /\ EngineAtRest
    /\ EmotionAtRest
    /\ PersonalityAtRest
    /\ ReducerAtRest
    /\ PollAtRest

ipc_vars == <<pending_file, response_file, operator_response, ui_observed>>

\* run loop: a poll found unprocessed messages, prepended them to
\* recent_messages and invokes the graph under a fresh thread_id; the input
\* state passes through the channel reducers
Invoke(limit) ==
    /\ pc = "idle"
    /\ tick < limit
    /\ tick' = tick + 1
    /\ recent_messages' = <<[message_id |-> tick + 1, processed |-> FALSE]>>
                              \o recent_messages
    /\ selected_actions' = add_or_clear(<<>>, ListUpdate(selected_actions))
    /\ agents_done' = {}
    /\ resumed' = FALSE
    /\ pc' = "agents"
    /\ UNCHANGED <<hitl_enabled, execution_queue, ipc_vars, dispatch_log,
                   agents_recent_actions,
                   agent_vars, poll_vars, engine_vars,
                   emotion_vars, reducer_vars, personality_vars>>

\* one persona node of the fan-out
RunAgent(agent) ==
    /\ pc = "agents"
    /\ agent \notin agents_done
    /\ \E outcome \in AgentOutcomes :
          IF outcome = RAISED
          THEN /\ pc' = "crashed"
               /\ UNCHANGED <<selected_actions, agents_done,
                              agents_recent_actions>>
          ELSE /\ \E action_id \in SelectedActionIds(outcome),
                     styled \in StyledResponses(outcome) :
                      /\ selected_actions' =
                             add_or_clear(selected_actions,
                                          agent_node_update(agent, outcome,
                                                            action_id, styled, tick))
                      /\ agents_recent_actions' =
                             merge_recent_actions(
                                 agents_recent_actions,
                                 agent_node_records(agent, outcome,
                                                    action_id, styled))
               /\ agents_done' = agents_done \cup {agent}
               /\ pc' = IF agents_done' = Agents THEN "scheduler" ELSE "agents"
    /\ UNCHANGED <<tick, hitl_enabled, recent_messages, execution_queue,
                   resumed, ipc_vars, dispatch_log,
                   agent_vars, poll_vars, engine_vars,
                   emotion_vars, reducer_vars, personality_vars>>

InvokeGraph == Invoke(MaxTicks)

SchedulerStep(successor) ==
    /\ pc = "scheduler"
    /\ LET returned == scheduler_node(
               [recent_messages |-> recent_messages,
                selected_actions |-> selected_actions,
                execution_queue |-> execution_queue])
       IN /\ recent_messages' = returned.recent_messages
          /\ execution_queue' = returned.execution_queue
          /\ selected_actions' =
                 add_or_clear(selected_actions, returned.selected_actions)
    /\ agents_recent_actions' =
           merge_recent_actions(agents_recent_actions, agents_recent_actions)
    /\ pc' = successor
    /\ UNCHANGED <<tick, hitl_enabled, agents_done, resumed, ipc_vars,
                   dispatch_log, agent_vars, poll_vars, engine_vars,
                   emotion_vars, reducer_vars, personality_vars>>

\* build_supervisor_graph: scheduler -> executor
RunScheduler == SchedulerStep("executor")

\* first execution of human_approval_node: forwards, or interrupts and
\* hands the approval request back to invoke_graph_with_hitl
RunHumanApproval ==
    /\ pc = "human_approval"
    /\ LET pending == pending_actions(execution_queue)
       IN IF pending = <<>> THEN
              /\ pc' = "executor"
              /\ UNCHANGED execution_queue
          ELSE IF ~hitl_enabled THEN
              /\ pc' = "executor"
              /\ execution_queue' = pending
          ELSE
              /\ pc' = "set_pending_write"
              /\ UNCHANGED execution_queue
    /\ UNCHANGED <<tick, hitl_enabled, recent_messages, selected_actions,
                   agents_done, resumed, ipc_vars, dispatch_log, agents_recent_actions,
                   agent_vars, poll_vars, engine_vars,
                   emotion_vars, reducer_vars, personality_vars>>

\* set_pending, first write: the pending file
SetPendingWrite ==
    /\ pc = "set_pending_write"
    /\ \E io \in IOOutcomes :
          pending_file' = write_json(pending_file,
                              [present |-> TRUE, request |-> tick,
                               decisions |-> <<>>], io)
    /\ pc' = "set_pending_clear"
    /\ UNCHANGED <<tick, hitl_enabled, recent_messages, selected_actions,
                   execution_queue, agents_done, resumed, response_file,
                   operator_response, ui_observed, dispatch_log, agents_recent_actions,
                   agent_vars, poll_vars, engine_vars,
                   emotion_vars, reducer_vars, personality_vars>>

\* set_pending, second write: remove the response file
SetPendingClear ==
    /\ pc = "set_pending_clear"
    /\ \E io \in UnlinkOutcomes(response_file) :
          /\ response_file' = IF io = "ok" THEN write_json_none(response_file)
                              ELSE response_file
          /\ pc' = IF io = "ok" THEN "waiting" ELSE IO_RAISED
    /\ UNCHANGED <<tick, hitl_enabled, recent_messages, selected_actions,
                   execution_queue, agents_done, resumed, pending_file,
                   operator_response, ui_observed, dispatch_log, agents_recent_actions,
                   agent_vars, poll_vars, engine_vars,
                   emotion_vars, reducer_vars, personality_vars>>

\* the wait loop's test succeeds
WaitHasResponse ==
    /\ pc = "waiting"
    /\ has_response(response_file)
    /\ pc' = "get_response"
    /\ UNCHANGED <<tick, hitl_enabled, recent_messages, selected_actions,
                   execution_queue, agents_done, resumed, ipc_vars,
                   dispatch_log, agents_recent_actions,
                   agent_vars, poll_vars, engine_vars,
                   emotion_vars, reducer_vars, personality_vars>>

\* get_response(): None when the file is not there
GetResponse ==
    /\ pc = "get_response"
    /\ operator_response' = IF response_file.present
                            THEN response_file.decisions ELSE NoResponse
    /\ pc' = "resume"
    /\ UNCHANGED <<tick, hitl_enabled, recent_messages, selected_actions,
                   execution_queue, agents_done, resumed, pending_file,
                   response_file, ui_observed, dispatch_log, agents_recent_actions,
                   agent_vars, poll_vars, engine_vars,
                   emotion_vars, reducer_vars, personality_vars>>

\* graph.invoke(Command(resume=...)): human_approval_node runs again from
\* its top and interrupt() returns the operator response
ResumeHumanApproval ==
    /\ pc = "resume"
    /\ IF operator_response = NoResponse
       THEN /\ pc' = "crashed"
            /\ UNCHANGED <<execution_queue, resumed>>
       ELSE /\ execution_queue' =
                   process_approval_response(execution_queue, operator_response)
            /\ resumed' = TRUE
            /\ pc' = "executor"
    /\ UNCHANGED <<tick, hitl_enabled, recent_messages, selected_actions,
                   agents_done, ipc_vars, dispatch_log, agents_recent_actions,
                   agent_vars, poll_vars, engine_vars,
                   emotion_vars, reducer_vars, personality_vars>>

RunExecutor ==
    /\ pc = "executor"
    /\ \E elapsed \in 0..(IF execution_queue = <<>> THEN 0
                           ELSE execution_queue[Len(execution_queue)].slot) :
          LET ready_actions == get_ready_actions(execution_queue, elapsed)
              most_recent_timestamp ==
                  get_most_recent_message_timestamp(recent_messages)
              called == SelectSeq(ready_actions,
                            LAMBDA a : Dispatchable(a, most_recent_timestamp))
              returns == IF resumed THEN "clear_pending" ELSE "finish"
          IN IF execution_queue = <<>> THEN
                 /\ execution_queue' = <<>>
                 /\ selected_actions' =
                        \* the empty-queue return: "selected_actions": []
                        add_or_clear(selected_actions, ListUpdate(<<>>))
                 /\ pc' = returns
                 /\ UNCHANGED dispatch_log
             ELSE IF ready_actions = <<>> THEN
                 /\ pc' = returns
                 /\ UNCHANGED <<execution_queue, selected_actions, dispatch_log>>
             ELSE
                 \E raised_at \in RaisePoints(called) :
                    IF raised_at = 0 THEN
                        /\ dispatch_log' = dispatch_log \o
                               [i \in 1..Len(called) |->
                                   TransportCall(called[i], most_recent_timestamp)]
                        /\ selected_actions' =
                               add_or_clear(selected_actions,
                                            ExecutorSelectedActionsUpdate)
                        /\ pc' = returns
                        /\ UNCHANGED execution_queue
                    ELSE
                        \* the exception leaves executor_node: no update
                        /\ dispatch_log' = dispatch_log \o
                               [i \in 1..raised_at |->
                                   TransportCall(called[i], most_recent_timestamp)]
                        /\ pc' = "crashed"
                        /\ UNCHANGED <<execution_queue, selected_actions>>
    /\ UNCHANGED <<tick, hitl_enabled, recent_messages, agents_done, resumed,
                   ipc_vars, agents_recent_actions,
                   agent_vars, poll_vars, engine_vars,
                   emotion_vars, reducer_vars, personality_vars>>

\* approval_state.clear(), first write
ClearPending ==
    /\ pc = "clear_pending"
    /\ \E io \in UnlinkOutcomes(pending_file) :
          /\ pending_file' = IF io = "ok" THEN write_json_none(pending_file)
                             ELSE pending_file
          /\ pc' = IF io = "ok" THEN "clear_response" ELSE IO_RAISED
    /\ UNCHANGED <<tick, hitl_enabled, recent_messages, selected_actions,
                   execution_queue, agents_done, resumed, response_file,
                   operator_response, ui_observed, dispatch_log, agents_recent_actions,
                   agent_vars, poll_vars, engine_vars,
                   emotion_vars, reducer_vars, personality_vars>>

\* approval_state.clear(), second write
ClearResponse ==
    /\ pc = "clear_response"
    /\ \E io \in UnlinkOutcomes(response_file) :
          /\ response_file' = IF io = "ok" THEN write_json_none(response_file)
                              ELSE response_file
          /\ pc' = IF io = "ok" THEN "finish" ELSE IO_RAISED
    /\ operator_response' = NoResponse
    /\ UNCHANGED <<tick, hitl_enabled, recent_messages, selected_actions,
                   execution_queue, agents_done, resumed, pending_file,
                   ui_observed, dispatch_log, agents_recent_actions,
                   agent_vars, poll_vars, engine_vars,
                   emotion_vars, reducer_vars, personality_vars>>

\* run loop after the invocation returned: mark every message processed
FinishTick ==
    /\ pc = "finish"
    /\ recent_messages' = MarkProcessed(recent_messages)
    /\ pc' = "idle"
    /\ UNCHANGED <<tick, hitl_enabled, selected_actions, execution_queue,
                   agents_done, resumed, ipc_vars, dispatch_log, agents_recent_actions,
                   agent_vars, poll_vars, engine_vars,
                   emotion_vars, reducer_vars, personality_vars>>

\* the approval UI reads the pending file
UIObserve ==
    /\ pending_file.present
    /\ ui_observed # pending_file.request
    /\ ui_observed' = pending_file.request
    /\ UNCHANGED <<pc, tick, hitl_enabled, recent_messages, selected_actions,
                   execution_queue, agents_done, resumed, pending_file,
                   response_file, operator_response, dispatch_log, agents_recent_actions,
                   agent_vars, poll_vars, engine_vars,
                   emotion_vars, reducer_vars, personality_vars>>

\* the approval UI writes the operator's response to the request it read
UISubmit ==
    /\ ui_observed # 0
    /\ \E decisions \in OperatorResponses :
          response_file' = [present |-> TRUE, request |-> ui_observed,
                            decisions |-> decisions]
    /\ ui_observed' = 0
    /\ UNCHANGED <<pc, tick, hitl_enabled, recent_messages, selected_actions,
                   execution_queue, agents_done, resumed, pending_file,
                   operator_response, dispatch_log, agents_recent_actions,
                   agent_vars, poll_vars, engine_vars,
                   emotion_vars, reducer_vars, personality_vars>>

\* the supervisor graph as build_supervisor_graph wires it
Next ==
    \/ InvokeGraph
    \/ \E agent \in Agents : RunAgent(agent)
    \/ RunScheduler
    \/ RunExecutor
    \/ FinishTick

Spec == Init /\ [][Next]_vars

(***************************************************************************)
(* The supervisor graph with the approval gate.  run_supervisor.py builds  *)
(* the graph with a checkpointer and handles its interrupt; the builder    *)
(* that places human_approval between scheduler and executor is not among  *)
(* the sources, and that one edge is taken from the specification.         *)
(***************************************************************************)
InvokeGraphGated == Invoke(MaxGatedTicks)

RunSchedulerGated == SchedulerStep("human_approval")

NextGated ==
    \/ InvokeGraphGated
    \/ \E agent \in Agents : RunAgent(agent)
    \/ RunSchedulerGated
    \/ RunHumanApproval
    \/ SetPendingWrite
    \/ SetPendingClear
    \/ WaitHasResponse
    \/ GetResponse
    \/ ResumeHumanApproval
    \/ RunExecutor
    \/ ClearPending
    \/ ClearResponse
    \/ FinishTick
    \/ UIObserve
    \/ UISubmit

SpecGated == Init /\ [][NextGated]_vars

(***************************************************************************)
(* executor_node on its own: the node is handed a queue of items of the    *)
(* shape it reads ('action_id', 'target_message')                          *)
(***************************************************************************)
\* the queue items executor_node distinguishes by its routing; the item at
\* position i stems from invocation i
ExecutorItem(agent, action_id, target_message, i) ==
    [agent_name |-> agent,
     phone_number |-> PhoneOf(agent),
     action |-> [id |-> action_id],
     action_content |-> "text",
     action_id |-> action_id,
     target_message |-> target_message,
     status |-> "pending",
     slot |-> i,
     origin |-> i]

\* 'date' of the newest message, as strftime('%Y-%m-%d %H:%M:%S') gives it
MessageDates == {"2024-05-01 10:00:00", "2024-05-01 10:00:07"}

InitExecutor ==
    /\ pc = "executor"
    /\ tick = 1
    /\ hitl_enabled = FALSE
    /\ \E date \in MessageDates :
          recent_messages = <<[message_id |-> 1, processed |-> FALSE,
                               date |-> date]>>
    /\ selected_actions = <<>>
    \* one item per persona, Tamar's first; a target message carries any of
    \* the timestamps or is None
    /\ \E n \in 1..MaxExecItems :
       \E ids \in [1..n -> {"add_reaction", "answer_question"}] :
       \E targets \in [1..n -> {NoTarget} \cup
                                {[present |-> TRUE, timestamp |-> timestamp]
                                    : timestamp \in Timestamps}] :
          execution_queue =
              [i \in 1..n |->
                  ExecutorItem(IF i = 1 THEN "Tamar" ELSE "Matan",
                               ids[i], targets[i], i)]
    /\ agents_done = Agents
    /\ resumed = FALSE
    /\ pending_file = Absent
    /\ response_file = Absent
    /\ operator_response = NoResponse
    /\ ui_observed = 0
    /\ dispatch_log = <<>>
    /\ agents_recent_actions = [agent \in {"Tamar", "Matan"} |-> <<>>]
    /\ agent_state = InitialAgentState(CHOOSE p \in Personas : p.agent_name = NULL,
                                       <<>>, {})
    /\ active = END
    /\ text_generator_entries = 0
    /\ validator_log = <<>>
    /\ EngineAtRest
    /\ EmotionAtRest
    /\ PersonalityAtRest
    /\ ReducerAtRest
    /\ PollAtRest

NextExecutor ==
    \/ RunExecutor
    \/ FinishTick

SpecExecutor == InitExecutor /\ [][NextExecutor]_vars

(***************************************************************************)
(* The compiled supervisor graph under the graph engine: an invocation     *)
(* proceeds in supersteps; the nodes of a superstep run concurrently, and  *)
(* the nodes they trigger, by edge or by Command(goto=...), form the next  *)
(* superstep                                                               *)
(***************************************************************************)
START == "__start__"

\* the add_edge calls of build_supervisor_graph
Edges ==
    {<<START, "component_B">>, <<"component_B", "component_C">>}
    \cup {<<"component_C", agent>> : agent \in Agents}
    \cup {<<"scheduler", "executor">>, <<"executor", END>>}

\* nodes triggered by the return of node
Triggers(node) == {m \in {e[2] : e \in Edges} : <<node, m>> \in Edges}
                      \* goto of the Command agent_node returns
                      \cup (IF node \in Agents THEN {"scheduler"} ELSE {})

\* variant: the next superstep begins as soon as one node has returned
SuperstepCompleteEarly(step, done) == done # {}

\* the superstep ends when every node of it has returned
SuperstepComplete(step, done) == done = step

Event(kind, node) == [tick |-> engine_tick, kind |-> kind, node |-> node]

\* graph.invoke: the first superstep holds the nodes START leads to
EngineInvoke ==
    /\ step_nodes = {}
    /\ engine_tick < MaxEngineTicks
    /\ engine_tick' = engine_tick + 1
    /\ step_nodes' = Triggers(START)
    /\ started' = {}
    /\ finished' = {}
    /\ next_nodes' = {}
    /\ UNCHANGED <<stage_log, agent_vars, sup_vars, poll_vars,
                   emotion_vars, reducer_vars, personality_vars>>

EngineStart(node) ==
    /\ node \in step_nodes \ started
    /\ started' = started \cup {node}
    /\ stage_log' = Append(stage_log, Event("start", node))
    /\ UNCHANGED <<step_nodes, finished, next_nodes, engine_tick,
                   agent_vars, sup_vars, poll_vars,
                   emotion_vars, reducer_vars, personality_vars>>

EngineFinish(node) ==
    /\ node \in started \ finished
    /\ finished' = finished \cup {node}
    /\ next_nodes' = next_nodes \cup Triggers(node)
    /\ stage_log' = Append(stage_log, Event("finish", node))
    /\ UNCHANGED <<step_nodes, started, engine_tick,
                   agent_vars, sup_vars, poll_vars,
                   emotion_vars, reducer_vars, personality_vars>>

\* agent_graph.invoke raises inside agent_node: the invocation ends there
EngineRaise(node) ==
    /\ node \in (started \ finished) \cap Agents
    /\ stage_log' = Append(stage_log, Event("raise", node))
    /\ step_nodes' = {}
    /\ started' = {}
    /\ finished' = {}
    /\ next_nodes' = {}
    /\ UNCHANGED <<engine_tick, agent_vars, sup_vars, poll_vars,
                   emotion_vars, reducer_vars, personality_vars>>

EngineSuperstep ==
    /\ step_nodes # {}
    /\ SuperstepComplete(step_nodes, finished)
    /\ step_nodes' = next_nodes \ {END}
    /\ started' = {}
    /\ finished' = {}
    /\ next_nodes' = {}
    /\ UNCHANGED <<engine_tick, stage_log, agent_vars, sup_vars, poll_vars,
                   emotion_vars, reducer_vars, personality_vars>>

EngineNodes == {"component_B", "component_C", "scheduler", "executor"} \cup Agents

InitEngine ==
    /\ EngineAtRest
    /\ EmotionAtRest
    /\ PersonalityAtRest
    /\ ReducerAtRest
    /\ SupervisorAtRest
    /\ PollAtRest
    /\ agent_state = InitialAgentState(CHOOSE p \in Personas : p.agent_name = NULL,
                                       <<>>, {})
    /\ active = END
    /\ text_generator_entries = 0
    /\ validator_log = <<>>

NextEngine ==
    \/ EngineInvoke
    \/ \E node \in EngineNodes : EngineStart(node)
    \/ \E node \in EngineNodes : EngineFinish(node)
    \/ \E node \in EngineNodes : EngineRaise(node)
    \/ EngineSuperstep

SpecEngine == InitEngine /\ [][NextEngine]_vars

(***************************************************************************)
(* Run loop: message polling (run_supervisor.py, memory/group.py)          *)
(***************************************************************************)
Min(a, b) == IF a <= b THEN a ELSE b

\* seq[:n]
Take(seq, n) == SubSeq(seq, 1, Min(n, Len(seq)))

\* str() of a message id: its decimal digits
RECURSIVE str(_)
str(n) == IF n < 10 THEN <<n>> ELSE str(n \div 10) \o <<n % 10>>

\* get_chat_messages(limit): the transport returns the latest limit
\* messages of the chat, ids increasing along the chat
get_chat_messages(messages, limit) ==
    [i \in 1..Min(limit, Len(messages)) |-> Len(messages) + 1 - i]

\* list.sort(key=id, reverse=True), by insertion
RECURSIVE SortDescending(_)
SortDescending(ids) ==
    IF ids = <<>> THEN <<>>
    ELSE LET rest == SortDescending(Tail(ids))
             before == SelectSeq(rest, LAMBDA x : x >= Head(ids))
             after == SelectSeq(rest, LAMBDA x : x < Head(ids))
         IN before \o <<Head(ids)>> \o after

\* save_group_messages: ids not yet stored are added and the file is sorted
\* by id, most recent first
save_group_messages(existing_messages, messages) ==
    LET existing_ids == {existing_messages[i] : i \in 1..Len(existing_messages)}
        added == SelectSeq(messages, LAMBDA id : id \notin existing_ids)
    IN IF added # <<>>
       THEN SortDescending(existing_messages \o added)
       ELSE existing_messages

\* get_group_messages(limit)
get_group_messages(messages, limit) ==
    IF limit # 0 THEN Take(messages, limit) ELSE messages

parse_telegram_message(id, senders) ==
    [message_id |-> str(id), from_agent |-> senders[id], processed |-> FALSE]

\* deque(maxlen=RingCap).append
DequeAppend(ring, x) ==
    IF Len(ring) >= RingCap THEN Tail(ring) \o <<x>> ELSE ring \o <<x>>

\* the ring after appending every id of messages, in order
RECURSIVE LoadInitialIds(_, _)
LoadInitialIds(ring, messages) ==
    IF messages = <<>> THEN ring
    ELSE LoadInitialIds(DequeAppend(ring, Head(messages).message_id),
                        Tail(messages))

\* variant: an admitted id is not recorded
SeenAfterAdmitForgets(ring, message_id) == ring

\* seen_message_ids.append(msg["message_id"]) for an admitted message
SeenAfterAdmit(ring, message_id) == DequeAppend(ring, message_id)

\* the poll's filter loop: [new |-> new_messages, seen |-> the ring after]
RECURSIVE FilterNew(_, _, _)
FilterNew(raw_messages, ring, admitted) ==
    IF raw_messages = <<>> THEN [new |-> admitted, seen |-> ring]
    ELSE LET msg == Head(raw_messages)
         IN IF ~\E i \in 1..Len(ring) : ring[i] = msg.message_id
            THEN FilterNew(Tail(raw_messages),
                           SeenAfterAdmit(ring, msg.message_id),
                           admitted \o <<msg>>)
            ELSE FilterNew(Tail(raw_messages), ring, admitted)

\* mark the personas' own messages processed
MarkAgentMessages(messages) ==
    [i \in 1..Len(messages) |->
        IF messages[i].from_agent
        THEN [messages[i] EXCEPT !.processed = TRUE]
        ELSE messages[i]]

MessageIds(messages) == {messages[i].message_id : i \in 1..Len(messages)}

InitPoll ==
    /\ pc = "start"
    /\ tick = 0
    /\ recent_messages = <<>>
    /\ chat = <<>>
    /\ fetch_limit \in 1..(RingCap + 1)
    /\ group_history = <<>>
    /\ seen_message_ids = <<>>
    /\ new_messages = <<>>
    /\ observed_ids = {}
    /\ processed_ids = {}
    /\ hitl_enabled = FALSE
    /\ selected_actions = <<>>
    /\ execution_queue = <<>>
    /\ agents_done = {}
    /\ resumed = FALSE
    /\ pending_file = Absent
    /\ response_file = Absent
    /\ operator_response = NoResponse
    /\ ui_observed = 0
    /\ dispatch_log = <<>>
    /\ agents_recent_actions = [agent \in {"Tamar", "Matan"} |-> <<>>]
    /\ agent_state = InitialAgentState(CHOOSE p \in Personas : p.agent_name = NULL,
                                       <<>>, {})
    /\ active = END
    /\ text_generator_entries = 0
    /\ validator_log = <<>>
    /\ EngineAtRest
    /\ EmotionAtRest
    /\ PersonalityAtRest
    /\ ReducerAtRest

\* a member or a persona posts a message to the chat
Arrive ==
    /\ Len(chat) < MaxChat
    /\ \E from_agent \in BOOLEAN : chat' = Append(chat, from_agent)
    /\ UNCHANGED <<pc, tick, recent_messages, fetch_limit, group_history,
                   seen_message_ids, new_messages, observed_ids,
                   processed_ids, graph_vars, agent_vars, engine_vars,
                   emotion_vars, reducer_vars, personality_vars>>

\* initialization step 4: fetch the initial history
InitialLoad ==
    /\ pc = "start"
    /\ \E success \in BOOLEAN :
          IF success THEN
              LET fetched_messages_raw == get_chat_messages(chat, fetch_limit)
                  stored == save_group_messages(group_history, fetched_messages_raw)
                  from_storage == get_group_messages(stored, fetch_limit)
                  initial_messages ==
                      [i \in 1..Len(from_storage) |->
                          parse_telegram_message(from_storage[i], chat)]
              IN /\ group_history' = stored
                 /\ recent_messages' = MarkAgentMessages(initial_messages)
                 /\ seen_message_ids' =
                        LoadInitialIds(seen_message_ids, initial_messages)
                 /\ observed_ids' = observed_ids \cup MessageIds(initial_messages)
                 /\ pc' = "fetched"
          ELSE
              /\ pc' = "idle"
              /\ UNCHANGED <<group_history, recent_messages, seen_message_ids,
                             observed_ids>>
    /\ UNCHANGED <<tick, chat, fetch_limit, new_messages, processed_ids,
                   graph_vars, agent_vars, engine_vars,
                   emotion_vars, reducer_vars, personality_vars>>

\* main loop: one poll up to the point where the graph may be invoked
PollFetch ==
    /\ pc = "idle"
    /\ tick < MaxPolls
    /\ tick' = tick + 1
    /\ \E success \in BOOLEAN :
          IF success THEN
              LET fetched_messages_raw == get_chat_messages(chat, fetch_limit)
                  stored == save_group_messages(group_history, fetched_messages_raw)
                  from_storage == get_group_messages(stored, fetch_limit)
                  raw_messages ==
                      [i \in 1..Len(from_storage) |->
                          parse_telegram_message(from_storage[i], chat)]
                  filtered == FilterNew(raw_messages, seen_message_ids, <<>>)
              IN /\ group_history' = stored
                 /\ seen_message_ids' = filtered.seen
                 /\ new_messages' = filtered.new
                 /\ observed_ids' = observed_ids \cup MessageIds(raw_messages)
                 /\ recent_messages' =
                        IF filtered.new # <<>>
                        THEN MarkAgentMessages(filtered.new \o recent_messages)
                        ELSE recent_messages
                 /\ pc' = "fetched"
          ELSE
              /\ pc' = "idle"
              /\ UNCHANGED <<group_history, seen_message_ids, new_messages,
                             observed_ids, recent_messages>>
    /\ UNCHANGED <<chat, fetch_limit, processed_ids, graph_vars, agent_vars, engine_vars,
                   emotion_vars, reducer_vars, personality_vars>>

\* the rest of the tick: run the graph when something is unprocessed and
\* mark every message processed
PollInvoke ==
    /\ pc = "fetched"
    /\ IF \E i \in 1..Len(recent_messages) : ~recent_messages[i].processed
       THEN \E raised \in BOOLEAN :
               IF raised
               THEN /\ pc' = "crashed"
                    /\ UNCHANGED <<recent_messages, processed_ids>>
               ELSE /\ recent_messages' =
                          \* component_C keeps the first MaxRecent entries
                          MarkProcessed(Take(recent_messages, MaxRecent))
                    /\ processed_ids' =
                          processed_ids \cup MessageIds(recent_messages)
                    /\ pc' = "idle"
       ELSE /\ processed_ids' = processed_ids \cup MessageIds(recent_messages)
            /\ pc' = "idle"
            /\ UNCHANGED recent_messages
    /\ new_messages' = <<>>
    /\ UNCHANGED <<tick, chat, fetch_limit, group_history, seen_message_ids,
                   observed_ids, graph_vars, agent_vars, engine_vars,
                   emotion_vars, reducer_vars, personality_vars>>

NextPoll ==
    \/ Arrive
    \/ InitialLoad
    \/ PollFetch
    \/ PollInvoke

SpecPoll == InitPoll /\ [][NextPoll]_vars

(***************************************************************************)
(* component_B: emotion_analysis_node                                      *)
(***************************************************************************)
\* message_emotion of a message not yet classified (None)
NoEmotion == [present |-> FALSE, emotion |-> "", justification |-> ""]

Emotion(emotion, justification) ==
    [present |-> TRUE, emotion |-> emotion, justification |-> justification]

\* what one model call can give: JSON that parses into the expected shape
\* and answers the message ids in answered, JSON of another shape (the
\* processing of it raises), text that is not JSON, or an exception
ModelResponses(ids) ==
    {[kind |-> "parsed", answered |-> S] : S \in SUBSET ids}
    \cup {[kind |-> k, answered |-> {}] : k \in {"malformed", "unparsable", "raises"}}

\* variant: a message the model did not answer stays unclassified
MissingEmotionStaysNone == NoEmotion

\* emotion written for a message missing from the model's answer
MissingEmotion ==
    Emotion("ERROR", "LLM did not return emotion for this message")

\* lines 159-184: every unclassified message gets the model's emotion or
\* the ERROR placeholder
ApplyEmotions(messages, answered) ==
    [i \in 1..Len(messages) |->
        IF messages[i].message_emotion.present THEN messages[i]
        ELSE IF messages[i].message_id \in answered
        THEN [messages[i] EXCEPT !.message_emotion = Emotion("joy", "given")]
        ELSE [messages[i] EXCEPT !.message_emotion = MissingEmotion]]

\* variant: the handlers set ERROR for every message of the list
AllMessagesError(messages, justification) ==
    [i \in 1..Len(messages) |->
        [messages[i] EXCEPT
            !.message_emotion = Emotion("ERROR", justification)]]

\* the two handlers that set ERROR for all unclassified messages
AllUnclassifiedError(messages, justification) ==
    [i \in 1..Len(messages) |->
        IF messages[i].message_emotion.present THEN messages[i]
        ELSE [messages[i] EXCEPT
                 !.message_emotion = Emotion("ERROR", justification)]]

\* recent_messages as emotion_analysis_node leaves it, the model answering
\* first and, after a JSON failure, retry
emotion_analysis_node(messages, first, retry) ==
    IF \A i \in 1..Len(messages) : messages[i].message_emotion.present
    THEN messages
    ELSE IF first.kind = "parsed" THEN ApplyEmotions(messages, first.answered)
    ELSE IF first.kind \in {"malformed", "raises"}
    THEN AllUnclassifiedError(messages, "Analysis failed")
    ELSE IF retry.kind = "parsed" THEN ApplyEmotions(messages, retry.answered)
    ELSE IF retry.kind \in {"malformed", "raises"}
    THEN AllUnclassifiedError(messages, "Analysis failed")
    ELSE AllUnclassifiedError(messages, "JSON parsing failed")

\* the model calls emotion_analysis_node makes: none when nothing is
\* unclassified, one, and a second one when the first text is not JSON
ModelCalls(messages, first, retry) ==
    IF \A i \in 1..Len(messages) : messages[i].message_emotion.present
    THEN <<>>
    ELSE IF first.kind = "unparsable" THEN <<first, retry>>
    ELSE <<first>>

\* state['group_sentiment'] of the dict the node was called with, when the
\* node ends; a parsed answer carries the group_sentiment key, and the
\* except handler writes 'ERROR: ' followed by the exception's text
node_group_sentiment_after(messages, current, first, retry) ==
    IF \A i \in 1..Len(messages) : messages[i].message_emotion.present
    THEN IF current = "" THEN "No recent messages to analyze." ELSE current
    ELSE IF first.kind = "parsed" THEN "summary"
    ELSE IF first.kind \in {"malformed", "raises"} THEN "ERROR: exception"
    ELSE IF retry.kind = "parsed" THEN "summary"
    ELSE IF retry.kind \in {"malformed", "raises"} THEN "ERROR: exception"
    ELSE "ERROR: Failed to parse LLM response"

\* the update emotion_analysis_node returns for group_sentiment: the bare
\* return of line 51 and the end of the function both return None
emotion_analysis_node_returns == [written |-> FALSE, value |-> ""]

\* a channel without a reducer keeps its value unless the node's return
\* value writes its key
LastValue(current, update) ==
    IF update.written THEN update.value ELSE current

\* recent_messages the node can be given: ids as parse_telegram_message
\* makes them, each message classified by an earlier tick or not
EmotionInputs ==
    UNION {[1..n -> [message_id : {str(k) : k \in 1..MaxEmotionIds},
                     message_emotion : {NoEmotion, Emotion("calm", "earlier")}]]
           : n \in 0..MaxEmotionMsgs}

InitEmotion ==
    /\ pc = "component_B"
    /\ recent_messages \in EmotionInputs
    /\ tick = 0
    /\ hitl_enabled = FALSE
    /\ selected_actions = <<>>
    /\ execution_queue = <<>>
    /\ agents_done = {}
    /\ resumed = FALSE
    /\ pending_file = Absent
    /\ response_file = Absent
    /\ operator_response = NoResponse
    /\ ui_observed = 0
    /\ dispatch_log = <<>>
    /\ agents_recent_actions = [agent \in {"Tamar", "Matan"} |-> <<>>]
    /\ agent_state = InitialAgentState(CHOOSE p \in Personas : p.agent_name = NULL,
                                       <<>>, {})
    /\ active = END
    /\ text_generator_entries = 0
    /\ validator_log = <<>>
    \* the stored summary, or "" when none is stored
    /\ group_sentiment \in {"", "Previous sentiment"}
    /\ node_group_sentiment = group_sentiment
    /\ model_responses = <<>>
    /\ EngineAtRest
    /\ ReducerAtRest
    /\ PersonalityAtRest
    /\ PollAtRest

\* the node runs; its messages are the dicts the state holds, changed in
\* place
RunComponentB ==
    /\ pc = "component_B"
    /\ \E first, retry \in ModelResponses(MessageIds(recent_messages)) :
          /\ recent_messages' = emotion_analysis_node(recent_messages, first, retry)
          /\ model_responses' = ModelCalls(recent_messages, first, retry)
          /\ node_group_sentiment' =
                 node_group_sentiment_after(recent_messages, group_sentiment,
                                            first, retry)
    /\ group_sentiment' = LastValue(group_sentiment, emotion_analysis_node_returns)
    /\ pc' = "component_C"
    /\ UNCHANGED <<tick, graph_vars, agents_recent_actions,
                   agent_vars, poll_vars, engine_vars, reducer_vars, personality_vars>>

\* the rest of the tick and the next poll: the run loop prepends a new
\* message, unclassified or with the emotion stored for it in the group
\* history, and invokes the graph again
EmotionNextTick ==
    /\ pc = "component_C"
    /\ Len(recent_messages) < MaxEmotionMsgs
    /\ \E m \in [message_id : {str(k) : k \in 1..MaxEmotionIds},
                  message_emotion : {NoEmotion, Emotion("calm", "earlier")}] :
          recent_messages' = <<m>> \o recent_messages
    /\ pc' = "component_B"
    /\ UNCHANGED <<tick, graph_vars, agents_recent_actions,
                   agent_vars, poll_vars, engine_vars, emotion_vars,
                   reducer_vars, personality_vars>>

NextEmotion ==
    \/ RunComponentB
    \/ EmotionNextTick

SpecEmotion == InitEmotion /\ [][NextEmotion]_vars

(***************************************************************************)
(* The selected_actions channel under arbitrary sequences of updates       *)
(***************************************************************************)
\* lists a node can return for selected_actions
ChannelLists ==
    UNION {[1..n -> {ActionEntry("Tamar", "success", "answer_question", "hi", 1),
                     ActionEntry("Matan", "no_action_needed", "NONE", "", 1)}]
           : n \in 0..MaxUpdateLen}

\* values of agents_recent_actions: the run loop's input has a key for
\* every agent with saved actions; an update has a key for the agent that
\* returns it
RecentActionsDicts(len) ==
    UNION {[names ->
              UNION {[1..n -> {[action_id |-> "answer_question",
                                action_content |-> "text"],
                               [action_id |-> "add_reaction",
                                action_content |-> "ok"]}] : n \in 0..len}]
           : names \in SUBSET {"Tamar", "Matan"}}

InitReducer ==
    /\ \/ /\ pc = "channel"
          /\ channel_initial \in ChannelLists
          /\ agents_recent_actions = [agent \in {"Tamar", "Matan"} |-> <<>>]
       \/ /\ pc = "recent_actions"
          /\ channel_initial = <<>>
          /\ agents_recent_actions \in RecentActionsDicts(1)
    /\ selected_actions = channel_initial
    /\ channel_updates = <<>>
    /\ merge_call = [current |-> agents_recent_actions, new |-> <<>>,
                     current_after |-> agents_recent_actions]
    /\ tick = 0
    /\ hitl_enabled = FALSE
    /\ recent_messages = <<>>
    /\ execution_queue = <<>>
    /\ agents_done = {}
    /\ resumed = FALSE
    /\ pending_file = Absent
    /\ response_file = Absent
    /\ operator_response = NoResponse
    /\ ui_observed = 0
    /\ dispatch_log = <<>>
    /\ agent_state = InitialAgentState(CHOOSE p \in Personas : p.agent_name = NULL,
                                       <<>>, {})
    /\ active = END
    /\ text_generator_entries = 0
    /\ validator_log = <<>>
    /\ EngineAtRest
    /\ EmotionAtRest
    /\ PersonalityAtRest
    /\ PollAtRest

\* a node's return value writes the channel: the engine stores
\* add_or_clear(current, new)
WriteSelectedActions ==
    /\ pc = "channel"
    /\ Len(channel_updates) < MaxUpdates
    /\ \E new \in {ListUpdate(items) : items \in ChannelLists} \cup {CLEAR} :
          /\ selected_actions' = add_or_clear(selected_actions, new)
          /\ channel_updates' = Append(channel_updates, new)
    /\ UNCHANGED <<pc, tick, hitl_enabled, recent_messages, execution_queue,
                   agents_done, resumed, ipc_vars, dispatch_log,
                   agents_recent_actions, channel_initial, merge_call,
                   agent_vars, poll_vars, engine_vars, emotion_vars,
                   personality_vars>>

\* a node's return value writes agents_recent_actions: the engine calls
\* merge_recent_actions(current, new) with the channel's value and stores
\* what it returns
WriteRecentActions ==
    /\ pc = "recent_actions"
    /\ \E new \in RecentActionsDicts(1) :
          /\ \A agent \in DOMAIN agents_recent_actions \cap DOMAIN new :
                Len(agents_recent_actions[agent] \o new[agent]) <= MaxRecords
          /\ agents_recent_actions' =
                 merge_recent_actions(agents_recent_actions, new)
          /\ merge_call' =
                 [current |-> agents_recent_actions, new |-> new,
                  current_after |->
                      current_after_merge(agents_recent_actions, new)]
    /\ UNCHANGED <<pc, tick, hitl_enabled, recent_messages, selected_actions,
                   execution_queue, agents_done, resumed, ipc_vars,
                   dispatch_log, channel_initial, channel_updates,
                   agent_vars, poll_vars, engine_vars, emotion_vars,
                   personality_vars>>

NextReducer ==
    \/ WriteSelectedActions
    \/ WriteRecentActions

SpecReducer == InitReducer /\ [][NextReducer]_vars

(***************************************************************************)
(* Properties of the agent subgraph                                        *)
(***************************************************************************)
\* C1: in one run of the agent subgraph, started with retry_count = 0, the
\* text_generator node is entered at most 4 times whatever the validator
\* answers.
C1_TextGeneratorEntriesBounded == text_generator_entries <= 4

\* C1 witness: a run in which every attempt was rejected has ended with
\* max_retries_reached after the retry loop was exhausted
C1_RetryLoopExhausted ==
    /\ active = END
    /\ agent_state.selected_action.status = "max_retries_reached"
    /\ text_generator_entries = MAX_RETRIES

\* C2: every run of the agent subgraph eventually reaches END holding a
\* selected_action that carries a status; it neither runs forever nor ends
\* in a raised error.
C2_RunEndsWithStatus ==
    <>(active = END /\ agent_state.selected_action.present
                    /\ agent_state.selected_action.status # "")

C3_DispatchedAtMostOnce ==
    \A i, j \in 1..Len(dispatch_log) :
        (dispatch_log[i].agent_name = dispatch_log[j].agent_name
         /\ dispatch_log[i].origin = dispatch_log[j].origin) => i = j

\* C3 witness: an action selected in the first invocation was dispatched and
\* a later invocation has run its executor as well
C3_DispatchedThenLaterTick ==
    /\ tick >= 2
    /\ pc = "finish"
    /\ \E i \in 1..Len(dispatch_log) : dispatch_log[i].origin = 1

\* C4: at every point of every tick, selected_actions holds at most one
\* entry for any agent_name.
C4_OneEntryPerAgent ==
    \A agent \in Agents :
        Len(SelectSeq(selected_actions, LAMBDA e : e.agent_name = agent)) <= 1

\* C5: whenever the scheduler node has returned, selected_actions is the
\* empty list.
C5_ClearedAfterScheduler ==
    pc = "executor" => selected_actions = <<>>

\* C6: with hitl.enabled = true, every queue item the executor receives was
\* approved by the operator response the graph was resumed with, or is an
\* operator replacement; nothing reaches the executor around the gate.
C6_ExecutorGetsOnlyApproved ==
    (pc = "executor" /\ hitl_enabled) =>
        \/ execution_queue = <<>>
        \/ /\ resumed
           /\ \A i \in 1..Len(execution_queue) :
                 \/ execution_queue[i].action_id = "operator_replacement"
                 \/ operator_response[execution_queue[i].agent_name].decision
                        = "approved"

\* C7: set_pending is atomic for the approval UI: a response the UI wrote to
\* the request just published is never removed by set_pending's own
\* clearing of the response file.
C7_SetPendingAtomic ==
    [][(pc = "set_pending_clear" /\ response_file.present
        /\ response_file.request = pending_file.request)
          => response_file'.present]_vars

\* C8: while the graph is suspended at the approval gate and no operator
\* response is present, no step resumes it and nothing is dispatched.
C8_SuspendedWithoutResponse ==
    [][(pc = "waiting" /\ ~response_file.present)
          => (pc' = "waiting" /\ dispatch_log' = dispatch_log
              /\ execution_queue' = execution_queue)]_vars

\* C8 witness: the graph is suspended, the request is published and no
\* response has been written
C8_WaitingForOperator ==
    /\ pc = "waiting"
    /\ pending_file.present
    /\ ~response_file.present
    /\ pending_actions(execution_queue) # <<>>

(***************************************************************************)
(* Properties of the run loop's polling                                    *)
(***************************************************************************)
\* C9: a message id processed in an earlier tick is not among the
\* new_messages of a later tick as long as fewer than RingCap (1000 in the
\* program) distinct ids have been read by the run loop.
C9_NoReadmissionBeforeRingFull ==
    \A i \in 1..Len(new_messages) :
        new_messages[i].message_id \in processed_ids
            => Cardinality(observed_ids) >= RingCap

\* C9 witness: a poll admitted a new message while an id processed in an
\* earlier tick was in the fetched window and the ring was not yet full
C9_ProcessedIdFilteredOut ==
    /\ pc = "fetched"
    /\ new_messages # <<>>
    /\ Cardinality(observed_ids) < RingCap
    /\ \E i \in 1..Len(Take(group_history, fetch_limit)) :
          str(group_history[i]) \in processed_ids

\* C10: for every fetch limit up to the ring capacity, recent_messages
\* never holds two entries with the same message_id.
C10_RecentMessagesUnique ==
    fetch_limit <= RingCap =>
        \A i, j \in 1..Len(recent_messages) :
            recent_messages[i].message_id = recent_messages[j].message_id
                => i = j

\* C11: once an entry of recent_messages has processed = true, no later
\* state of the run holds an entry for the same message_id with
\* processed = false.
C11_ProcessedStaysTrue ==
    [][\A i \in 1..Len(recent_messages) :
          recent_messages[i].processed =>
              \A j \in 1..Len(recent_messages') :
                  recent_messages'[j].message_id = recent_messages[i].message_id
                      => recent_messages'[j].processed]_vars

(***************************************************************************)
(* Properties of the supervisor's analysis nodes                           *)
(***************************************************************************)
\* C12: when emotion_analysis_node has returned, every message of
\* recent_messages has a message_emotion, whatever the model calls gave.
C12_EmotionTotal ==
    pc = "component_C" =>
        \A i \in 1..Len(recent_messages) :
            recent_messages[i].message_emotion.present

\* C12 witness: the node returned after a parsed answer that left out one
\* unclassified message and answered another
C12_AnswerLeftOneOut ==
    /\ pc = "component_C"
    /\ \E i, j \in 1..Len(recent_messages) :
          /\ recent_messages[i].message_emotion = MissingEmotion
          /\ recent_messages[j].message_emotion = Emotion("joy", "given")

(***************************************************************************)
(* Properties of the agent subgraph: error routing                         *)
(***************************************************************************)
\* C14: when trigger analysis yields a trigger whose id is "ERROR", the
\* orchestrator routes to END with an error status; decision_maker is never
\* the active node while the detected trigger is the ERROR trigger
C14_ErrorTriggerSkipsDecisionMaker ==
    (/\ agent_state.detected_trigger.present
     /\ agent_state.detected_trigger.id = "ERROR") =>
        active # "decision_maker"

(***************************************************************************)
(* Properties of the scheduler and the executor                            *)
(***************************************************************************)
\* C15: with HITL disabled, when a tick ends every queue item the scheduler
\* produced in it has been dispatched by the executor and the execution
\* queue is empty (the executor leaves a non-empty queue as it found it,
\* so at the end of the tick the queue still is what the scheduler produced)
C15_QueueDrainedInTick ==
    (pc = "finish" /\ ~hitl_enabled) =>
        /\ \A i \in 1..Len(execution_queue) :
              \E j \in 1..Len(dispatch_log) :
                  /\ dispatch_log[j].agent_name = execution_queue[i].agent_name
                  /\ dispatch_log[j].origin = execution_queue[i].origin
        /\ execution_queue = <<>>

\* C16: the execution queue the scheduler produces consists of exactly the
\* entries of selected_actions whose status is neither no_action_needed nor
\* error, one queue item per entry, in the order of selected_actions
C16_QueueIsFilteredSelection ==
    [][(pc = "scheduler" /\ pc' = "executor") =>
          LET kept == SelectSeq(selected_actions,
                          LAMBDA a : a.status \notin {"no_action_needed", "error"})
          IN /\ Len(execution_queue') = Len(kept)
             /\ \A i \in 1..Len(kept) :
                   /\ execution_queue'[i].agent_name = kept[i].agent_name
                   /\ execution_queue'[i].origin = kept[i].origin
                   /\ execution_queue'[i].action_content = kept[i].styled_response
                   /\ execution_queue'[i].status = "pending"]_vars

\* C16 witness: the scheduler has queued two entries that had an error entry
\* between them in selected_actions
C16_ErrorEntryFilteredBetween ==
    /\ pc = "executor"
    /\ Len(execution_queue) >= 2
    /\ \E i, j, k \in 1..Len(selected_actions) :
          /\ i < j /\ j < k
          /\ selected_actions[j].status = "error"
          /\ selected_actions[i].status = "success"
          /\ selected_actions[k].status = "max_retries_reached"

\* C17: after the scheduler returns, every message in recent_messages has
\* processed = true, whatever selected_actions held (an empty list and a
\* list with no schedulable action included)
C17_AllProcessedAfterScheduler ==
    pc = "executor" =>
        \A i \in 1..Len(recent_messages) : recent_messages[i].processed

\* C18: an agent whose subgraph run ended with an error status never has a
\* message or reaction dispatched for that run: every call the executor
\* makes to the transport is for a run (agent_name, origin) whose entry in
\* selected_actions is a success or max_retries_reached entry, not an error
C18_NoDispatchForErrorRun ==
    [][\A d \in Len(dispatch_log) + 1 .. Len(dispatch_log') :
          /\ \E i \in 1..Len(selected_actions) :
                /\ selected_actions[i].agent_name = dispatch_log'[d].agent_name
                /\ selected_actions[i].origin = dispatch_log'[d].origin
                /\ selected_actions[i].status \in {"success", "max_retries_reached"}
          /\ \A i \in 1..Len(selected_actions) :
                (/\ selected_actions[i].agent_name = dispatch_log'[d].agent_name
                 /\ selected_actions[i].origin = dispatch_log'[d].origin)
                    => selected_actions[i].status # "error"]_vars

\* C18 witness: a run that ended in error while holding a styled text has
\* its entry in selected_actions, and the queue the scheduler built from
\* that list holds another run's item and none for the failed run
C18_ErrorRunLeftOutOfQueue ==
    /\ pc = "executor"
    /\ execution_queue # <<>>
    /\ \E i \in 1..Len(selected_actions) :
          /\ selected_actions[i].status = "error"
          /\ selected_actions[i].styled_response = "text"
          /\ selected_actions[i].origin = tick
          /\ \A q \in 1..Len(execution_queue) :
                ~(/\ execution_queue[q].agent_name = selected_actions[i].agent_name
                  /\ execution_queue[q].origin = selected_actions[i].origin)

(***************************************************************************)
(* Properties of the executor's routing                                    *)
(***************************************************************************)
\* C19: a queue item whose action id is add_reaction and which lacks a
\* target_message timestamp is dropped by the executor: no call to the
\* transport, reactions endpoint or send endpoint, is made for it
C19_ReactionWithoutTimestampDropped ==
    [][pc = "executor" =>
          \A i \in 1..Len(execution_queue) :
              (/\ execution_queue[i].action_id = "add_reaction"
               /\ \/ ~execution_queue[i].target_message.present
                  \/ execution_queue[i].target_message.timestamp = "")
              => \A d \in Len(dispatch_log) + 1 .. Len(dispatch_log') :
                     ~(/\ dispatch_log'[d].agent_name = execution_queue[i].agent_name
                       /\ dispatch_log'[d].origin = execution_queue[i].origin)]_vars

\* C19 witness: the executor ran with both items of the queue ready, called
\* the transport for the second and made no call for the first, a reaction
\* without a target timestamp
C19_ReactionDroppedOtherSent ==
    /\ pc = "finish"
    /\ Len(execution_queue) = 2
    /\ execution_queue[1].action_id = "add_reaction"
    /\ ~execution_queue[1].target_message.present
    /\ Len(dispatch_log) = 1
    /\ dispatch_log[1].agent_name = execution_queue[2].agent_name
    /\ dispatch_log[1].origin = execution_queue[2].origin

\* C20: an action selected by a persona with id add_reaction, whose target
\* message has a timestamp, is delivered through the reactions endpoint
\* with the converted timestamp and never through the send-message
\* endpoint: every transport call made for a run whose selected action is
\* add_reaction is a call of add_reaction_to_message with a timestamp
C20_ReactionUsesReactionsEndpoint ==
    [][\A d \in Len(dispatch_log) + 1 .. Len(dispatch_log') :
          \A i \in 1..Len(selected_actions) :
              (/\ selected_actions[i].agent_name = dispatch_log'[d].agent_name
               /\ selected_actions[i].origin = dispatch_log'[d].origin
               /\ selected_actions[i].selected_action.id = "add_reaction")
              => /\ dispatch_log'[d].endpoint = "add_reaction_to_message"
                 /\ dispatch_log'[d].timestamp # NULL]_vars

\* C21: for a non-reaction action whose target_message timestamp equals the
\* timestamp of the most recent message, the executor calls the send
\* endpoint without a reply timestamp; for a target with another (older)
\* well-formed timestamp it calls it with the converted timestamp
C21_ReplyElidedForMostRecent ==
    [][pc = "executor" =>
          \A i \in 1..Len(execution_queue) :
              \A d \in Len(dispatch_log) + 1 .. Len(dispatch_log') :
                  (/\ dispatch_log'[d].agent_name = execution_queue[i].agent_name
                   /\ dispatch_log'[d].origin = execution_queue[i].origin
                   /\ execution_queue[i].action_id # "add_reaction"
                   /\ execution_queue[i].target_message.present
                   /\ execution_queue[i].target_message.timestamp \in MessageDates)
                  => /\ dispatch_log'[d].endpoint = "send_telegram_message"
                     /\ dispatch_log'[d].timestamp =
                            IF execution_queue[i].target_message.timestamp
                                   = recent_messages[1].date
                            THEN NULL
                            ELSE convert_timestamp_to_iso(
                                     execution_queue[i].target_message.timestamp)]_vars

\* C21 witness: the executor has sent two messages, the first for a target
\* that is the most recent message, without a reply timestamp, the second
\* for an older target, with one
C21_OneElidedOneReply ==
    /\ pc = "finish"
    /\ Len(execution_queue) = 2
    /\ \A i \in 1..2 : /\ execution_queue[i].action_id = "answer_question"
                       /\ execution_queue[i].target_message.present
    /\ execution_queue[1].target_message.timestamp = recent_messages[1].date
    /\ execution_queue[2].target_message.timestamp = "2024-05-01 10:00:00"
    /\ recent_messages[1].date = "2024-05-01 10:00:07"
    /\ Len(dispatch_log) = 2
    /\ dispatch_log[1].timestamp = NULL
    /\ dispatch_log[2].timestamp = "2024-05-01T10:00:00.000Z"

C23_RecordAppendedIffApproved ==
    [][\A agent \in Agents :
          agent \in agents_done' \ agents_done =>
              LET approved ==
                      /\ Len(selected_actions') = Len(selected_actions) + 1
                      /\ selected_actions'[Len(selected_actions')].status = "success"
              IN Len(agents_recent_actions'[agent]) =
                     Len(agents_recent_actions[agent]) + (IF approved THEN 1 ELSE 0)]_vars

\* C24: a failed dispatch of one queue item, an error result or an
\* exception from the transport, never propagates out of the executor
\* node: the node returns and the invocation goes on
C24_ExecutorNeverRaises ==
    [][pc = "executor" => pc' # "crashed"]_vars

C26_PendingMeansWaiting ==
    pending_file.present =>
        pc \notin {"agents", "scheduler", "human_approval", "executor"}

\* C27: a failed read or write of the approval files during a tick neither
\* terminates the run loop nor leaves it blocked: no exception of a file
\* operation leaves the loop, and whenever the supervisor waits for the
\* operator the request is published, or a response is written or on its
\* way, so that the wait can end
C27_IOFailureNeitherStopsNorBlocks ==
    /\ pc # IO_RAISED
    /\ pc = "waiting" =>
          (pending_file.present \/ response_file.present \/ ui_observed # 0)

\* C28: after every run-loop iteration, whether or not the graph was invoked
\* in it, recent_messages holds at most max_recent_messages (MaxRecent)
\* entries
C28_RecentMessagesBoundedAfterIteration ==
    [][(pc = "fetched" /\ tick > 0 /\ pc' = "idle")
          => Len(recent_messages') <= MaxRecent]_vars

\* C29: for any sequence of updates to selected_actions, the reduced value
\* is the in-order concatenation of the list updates written since the most
\* recent "CLEAR" update, starting from the initial value when no "CLEAR"
\* was written; directly after a "CLEAR" update the value is [] whatever it
\* was before
C29_ReducedValueSinceLastClear ==
    pc = "channel" =>
        LET n == Len(channel_updates)
            clears == {i \in 1..n : channel_updates[i] = CLEAR}
            last == IF clears = {} THEN 0
                    ELSE CHOOSE i \in clears : \A j \in clears : j <= i
            Concat[i \in last..n] ==
                IF i = last
                THEN IF last = 0 THEN channel_initial ELSE <<>>
                ELSE Concat[i - 1] \o channel_updates[i].items
        IN selected_actions = Concat[n]

\* C29 witness: "CLEAR" was written on a non-empty value and two non-empty
\* lists that differ were written after it
C29_ClearedThenTwoLists ==
    /\ pc = "channel"
    /\ Len(channel_updates) = 3
    /\ channel_initial # <<>>
    /\ channel_updates[1] = CLEAR
    /\ channel_updates[2] # CLEAR /\ channel_updates[2].items # <<>>
    /\ channel_updates[3] # CLEAR /\ channel_updates[3].items # <<>>
    /\ channel_updates[2].items # channel_updates[3].items
    /\ selected_actions = channel_updates[2].items \o channel_updates[3].items

\* C30: when the first response of the emotion analyzer's model is not
\* JSON, the node makes exactly one more model call; when the second
\* response is not JSON either, no further call is made, every message
\* that was unclassified gets the emotion "ERROR", and group_sentiment is
\* an ERROR string
C30_OneRetryThenError ==
    [][(/\ pc = "component_B" /\ pc' = "component_C"
        /\ model_responses' # <<>>
        /\ model_responses'[1].kind = "unparsable")
          => /\ Len(model_responses') = 2
             /\ model_responses'[2].kind = "unparsable" =>
                   /\ \A i \in 1..Len(recent_messages) :
                         ~recent_messages[i].message_emotion.present =>
                             recent_messages'[i].message_emotion.emotion = "ERROR"
                   /\ group_sentiment' \in {"ERROR: Failed to parse LLM response",
                                            "ERROR: exception"}]_vars

C36_ApprovalEndsWithSuccess ==
    [][(/\ active = "orchestrator"
        /\ agent_state.current_node = "validator"
        /\ agent_state.validation.approved)
          => /\ active' = END
             /\ agent_state'.selected_action.present
             /\ agent_state'.selected_action.status = "success"
             /\ agent_state'.selected_action.id = agent_state.selected_action.id
             /\ agent_state'.selected_action.styled_response
                    = agent_state.styled_response
             /\ ~Falsy(agent_state'.selected_action.styled_response)
             /\ agent_state'.selected_action.agent_name
                    = (IF agent_state.selected_persona.agent_name = NULL
                       THEN "unknown"
                       ELSE agent_state.selected_persona.agent_name)
             /\ agent_state'.selected_action.phone_number
                    = agent_state.selected_persona.phone_number
             /\ agent_state'.retry_count = 0]_vars

\* C36 witness: a run of a named persona ended with success after one
\* rejection and one approval
C36_ApprovedAfterOneRejection ==
    /\ active = END
    /\ validator_log = <<"rejected", "approved">>
    /\ agent_state.selected_action.status = "success"
    /\ agent_state.selected_action.agent_name = "Tamar"
    /\ agent_state.selected_action.styled_response = "text"
    /\ agent_state.retry_count = 0

\* C37: whenever the decision maker has returned without picking an action
\* (no suggested actions, missing action details, a neutral or ERROR
\* trigger, or an unusable answer of the model), the orchestrator's next
\* step routes to END with a no_action_needed result, so text_generator is
\* not entered
C37_NoActionEndsRun ==
    [][(/\ active = "orchestrator"
        /\ agent_state.next_node = "decision_maker"
        /\ ~agent_state.selected_action.present)
          => /\ active' = END
             /\ agent_state'.selected_action.status = "no_action_needed"]_vars

C39_EmotionAssignedOnce ==
    [][LET shift == Len(recent_messages') - Len(recent_messages)
       IN /\ shift >= 0
          /\ \A i \in 1..Len(recent_messages) :
                /\ recent_messages'[i + shift].message_id
                       = recent_messages[i].message_id
                /\ recent_messages[i].message_emotion.present =>
                       recent_messages'[i + shift].message_emotion
                           = recent_messages[i].message_emotion
                /\ (pc = "component_B"
                    /\ ~recent_messages[i].message_emotion.present) =>
                       recent_messages'[i + shift].message_emotion.present]_vars

\* C39 witness: in a later tick the analyzer's exception path has set ERROR
\* for the new message while the message classified in the tick before
\* kept the emotion it was given
C39_EarlierEmotionKeptOnErrorPath ==
    /\ pc = "component_C"
    /\ Len(recent_messages) >= 2
    /\ recent_messages[1].message_emotion = Emotion("ERROR", "Analysis failed")
    /\ recent_messages[2].message_emotion = Emotion("joy", "given")

(***************************************************************************)
(* The agents_recent_actions reducer                                       *)
(***************************************************************************)
\* C40: after a call of the agents_recent_actions reducer every key of the
\* update maps, in the stored value, to the prior list followed by the
\* update's list, and the dict passed as current, every list inside it
\* included, is as it was before the call.
C40_ReducerLeavesCurrentUnmodified ==
    pc = "recent_actions" =>
        /\ \A agent \in DOMAIN merge_call.new :
              agents_recent_actions[agent] =
                  (IF agent \in DOMAIN merge_call.current
                   THEN merge_call.current[agent] ELSE <<>>)
                      \o merge_call.new[agent]
        /\ merge_call.current_after = merge_call.current

(***************************************************************************)
(* component_C: the personality analyzer and the participant files         *)
(* Confidences are counted in thousandths.                                 *)
(***************************************************************************)
BIG5_TRAITS ==
    {"openness", "conscientiousness", "extraversion", "agreeableness",
     "neuroticism"}

\* penalty_config.get("min_messages_full_confidence", 15)
MIN_MESSAGES_FULL_CONFIDENCE == 15

\* penalty_config.get("penalty_factor", 0.03)
PENALTY_FACTOR == 30

\* confidence_thresholds.get(trait, 0.9)
CONFIDENCE_THRESHOLD == 900

\* PERSONALITY_CONFIG.get("min_messages_for_analysis", 1)
MIN_MESSAGES_FOR_ANALYSIS == 1

\* senders of the messages in recent_messages: a participant and a persona
Senders ==
    {[sender_id |-> "101", sender_username |-> "dana_l", display_name |-> "dana"],
     [sender_id |-> "201", sender_username |-> "tamar_bot", display_name |-> "tamar"]}

\* is_agent_sender(message=msg): the sender's username is a persona's
is_agent_sender(message) ==
    message.sender_username \in {"tamar_bot"}

\* round(x, 2): to the nearest hundredth; halfway between two hundredths the
\* binary value of the float decides
round(x, tie) ==
    LET r == x % 10
    IN  IF r < 5 \/ (r = 5 /\ tie = "down") THEN x - r ELSE x - r + 10

\* variant: the penalty is added to the confidence
apply_confidence_penalty_adds(big5_results, message_count_, tie) ==
    IF message_count_ >= MIN_MESSAGES_FULL_CONFIDENCE THEN big5_results
    ELSE LET penalty ==
                 (MIN_MESSAGES_FULL_CONFIDENCE - message_count_) * PENALTY_FACTOR
         IN  [trait \in DOMAIN big5_results |->
                 [confidence |->
                      round(big5_results[trait].confidence + penalty, tie),
                  raw_confidence |-> big5_results[trait].confidence,
                  has_raw_confidence |-> TRUE]]

\* apply_confidence_penalty: below the minimum count every trait keeps its
\* confidence as raw_confidence and gets round(max(0, raw - penalty), 2)
apply_confidence_penalty(big5_results, message_count_, tie) ==
    IF message_count_ >= MIN_MESSAGES_FULL_CONFIDENCE THEN big5_results
    ELSE LET penalty ==
                 (MIN_MESSAGES_FULL_CONFIDENCE - message_count_) * PENALTY_FACTOR
         IN  [trait \in DOMAIN big5_results |->
                 [confidence |->
                      round(IF big5_results[trait].confidence - penalty > 0
                            THEN big5_results[trait].confidence - penalty
                            ELSE 0, tie),
                  raw_confidence |-> big5_results[trait].confidence,
                  has_raw_confidence |-> TRUE]]

\* is_user_confident_enough: every trait of snapshots[-1] has a confidence
\* at or above its threshold; a missing trait counts as confidence 0
is_user_confident_enough(snapshots) ==
    /\ snapshots # <<>>
    /\ LET big5 == snapshots[Len(snapshots)].big5
       IN  \A trait \in BIG5_TRAITS :
               /\ trait \in DOMAIN big5
               /\ big5[trait].confidence >= CONFIDENCE_THRESHOLD

\* complete_big5: this run's result of a trait, else the trait of
\* snapshots[0]
complete_big5(big5_data, snapshots) ==
    LET previous_snapshot ==
            IF snapshots = <<>> THEN <<>> ELSE snapshots[1].big5
    IN  [trait \in (DOMAIN big5_data \cup DOMAIN previous_snapshot)
                       \cap BIG5_TRAITS |->
            IF trait \in DOMAIN big5_data THEN big5_data[trait]
            ELSE previous_snapshot[trait]]

\* variant: no trait is reported missing
missing_traits_none(big5_data, snapshots) == {}

\* missing_traits: traits with no result in this run and no previous data
missing_traits(big5_data, snapshots) ==
    BIG5_TRAITS \ DOMAIN complete_big5(big5_data, snapshots)

\* what the five model calls return for every user they name: the result
\* of a call that fails is {}, which leaves its trait out
TraitResults ==
    {[trait \in BIG5_TRAITS \ failed |->
         [confidence |-> confidence, raw_confidence |-> 0,
          has_raw_confidence |-> FALSE]]
     : failed \in {{}, {"neuroticism"}}, confidence \in {20, 855, 950}}

InitPersonality ==
    /\ pc = "component_C"
    /\ tick = 0
    /\ personality_snapshots = [s \in {"101", "201"} |-> <<>>]
    /\ message_count \in {[s \in {"101", "201"} |-> n] : n \in {12, 13}}
    /\ stop_reanalysis \in BOOLEAN
    /\ last_analysis = [new_user_ids |-> {}, skipped |-> {}]
    /\ hitl_enabled = FALSE
    /\ recent_messages = <<>>
    /\ selected_actions = <<>>
    /\ execution_queue = <<>>
    /\ agents_done = {}
    /\ resumed = FALSE
    /\ pending_file = Absent
    /\ response_file = Absent
    /\ operator_response = NoResponse
    /\ ui_observed = 0
    /\ dispatch_log = <<>>
    /\ agents_recent_actions = [agent \in {"Tamar", "Matan"} |-> <<>>]
    /\ agent_state = InitialAgentState(CHOOSE p \in Personas : p.agent_name = NULL,
                                       <<>>, {})
    /\ active = END
    /\ text_generator_entries = 0
    /\ validator_log = <<>>
    /\ EngineAtRest
    /\ EmotionAtRest
    /\ ReducerAtRest
    /\ PollAtRest

\* personality_analysis_node on a tick whose messages come from every
\* sender of Senders; new_from are the senders of the unprocessed messages,
\* which the poller has stored before the graph runs; names are the user
\* names of the model's results after merge_trait_results_by_user has
\* cleaned and lower-cased them: the participant, with or without the
\* persona
personality_analysis_node ==
    /\ pc = "component_C"
    /\ tick < MaxPersonalityTicks
    /\ \E new_from \in SUBSET Senders \ {{}},
          names \in {{"dana"}, {"dana", "tamar"}},
          big5_data \in TraitResults,
          tie \in {"down", "up"} :
          LET cumulative_msg_count ==
                  [user_id \in DOMAIN message_count |->
                      message_count[user_id]
                          + (IF \E s \in new_from : s.sender_id = user_id
                             THEN 1 ELSE 0)]
              new_user_ids ==
                  {s.sender_id : s \in {m \in new_from : ~is_agent_sender(m)}}
              skipped ==
                  {user_id \in new_user_ids :
                      /\ stop_reanalysis
                      /\ is_user_confident_enough(
                             personality_snapshots[user_id])}
              user_results ==
                  IF new_user_ids \ skipped = {} THEN {}
                  ELSE {s.sender_id :
                           s \in {m \in Senders : m.display_name \in names}}
              saved(user_id) ==
                  /\ user_id \in user_results
                  /\ cumulative_msg_count[user_id] >= MIN_MESSAGES_FOR_ANALYSIS
                  /\ missing_traits(big5_data,
                                    personality_snapshots[user_id]) = {}
          IN  /\ message_count' = cumulative_msg_count
              /\ personality_snapshots' =
                     [user_id \in DOMAIN personality_snapshots |->
                         IF saved(user_id)
                         THEN <<[messages_analyzed_count |->
                                     cumulative_msg_count[user_id],
                                 big5 |->
                                     apply_confidence_penalty(
                                         complete_big5(
                                             big5_data,
                                             personality_snapshots[user_id]),
                                         cumulative_msg_count[user_id],
                                         tie)]>>
                                  \o personality_snapshots[user_id]
                         ELSE personality_snapshots[user_id]]
              /\ last_analysis' =
                     [new_user_ids |-> new_user_ids, skipped |-> skipped]
    /\ tick' = tick + 1
    /\ UNCHANGED <<pc, recent_messages, stop_reanalysis, graph_vars,
                   agent_vars, poll_vars, engine_vars, emotion_vars,
                   reducer_vars>>

SpecPersonality == InitPersonality /\ [][personality_analysis_node]_vars

(***************************************************************************)
(* Properties of the personality analyzer                                  *)
(***************************************************************************)
\* C31: in every saved snapshot whose cumulative message count is below
\* min_messages_full_confidence, every trait has a raw_confidence and its
\* confidence is at most that raw_confidence, after rounding too and for
\* traits carried over from the previous snapshot too
C31_ConfidenceAtMostRawConfidence ==
    \A user_id \in DOMAIN personality_snapshots :
        \A i \in 1..Len(personality_snapshots[user_id]) :
            LET snapshot == personality_snapshots[user_id][i]
            IN  snapshot.messages_analyzed_count < MIN_MESSAGES_FULL_CONFIDENCE
                    => \A trait \in DOMAIN snapshot.big5 :
                          /\ snapshot.big5[trait].has_raw_confidence
                          /\ snapshot.big5[trait].confidence
                                 <= snapshot.big5[trait].raw_confidence

\* C31 witness: a snapshot saved below the minimum count whose neuroticism
\* was carried over from the previous snapshot, where it was 0.89 after the
\* penalty, and whose openness 0.855 - 0.03 was rounded up to 0.83
C31_CarriedOverAndRoundedUp ==
    /\ pc = "component_C"
    /\ "101" \in DOMAIN personality_snapshots
    /\ Len(personality_snapshots["101"]) = 2
    /\ LET latest == personality_snapshots["101"][1]
           previous == personality_snapshots["101"][2]
       IN  /\ latest.messages_analyzed_count = 14
           /\ previous.big5["neuroticism"].confidence = 890
           /\ latest.big5["neuroticism"].raw_confidence = 890
           /\ latest.big5["neuroticism"].confidence = 860
           /\ latest.big5["openness"].raw_confidence = 855
           /\ latest.big5["openness"].confidence = 830

\* C32: every saved snapshot holds all five traits, so a user for whom a
\* trait is missing from the run's results and from the previous snapshot
\* is not saved
C32_SnapshotsHoldAllFiveTraits ==
    \A user_id \in DOMAIN personality_snapshots :
        \A i \in 1..Len(personality_snapshots[user_id]) :
            DOMAIN personality_snapshots[user_id][i].big5 = BIG5_TRAITS

\* C32 witness: a snapshot saved at the full-confidence count whose
\* neuroticism is the previous snapshot's, the only trait that still has
\* the raw_confidence of the earlier penalty
C32_MissingTraitFromPreviousSnapshot ==
    /\ pc = "component_C"
    /\ "101" \in DOMAIN personality_snapshots
    /\ Len(personality_snapshots["101"]) = 2
    /\ LET latest == personality_snapshots["101"][1]
           previous == personality_snapshots["101"][2]
       IN  /\ latest.messages_analyzed_count >= MIN_MESSAGES_FULL_CONFIDENCE
           /\ latest.big5["neuroticism"] = previous.big5["neuroticism"]
           /\ latest.big5["neuroticism"].has_raw_confidence
           /\ ~latest.big5["openness"].has_raw_confidence

\* C33: in every run of the analyzer a user with new messages is skipped
\* exactly when the stop-reanalysis flag is on and the most recently saved
\* snapshot of that user has every trait confidence at or above the
\* threshold
C33_SkippedIffLatestSnapshotConfident ==
    [][(pc = "component_C" /\ tick' = tick + 1
            /\ DOMAIN personality_snapshots # {})
        => \A user_id \in last_analysis'.new_user_ids :
              (user_id \in last_analysis'.skipped)
                  <=> /\ stop_reanalysis
                      /\ personality_snapshots[user_id] # <<>>
                      /\ \A trait \in BIG5_TRAITS :
                            LET big5 == Head(personality_snapshots[user_id]).big5
                            IN  /\ trait \in DOMAIN big5
                                /\ big5[trait].confidence
                                       >= CONFIDENCE_THRESHOLD]_vars

\* C34: no snapshot is saved for the user id of an agent persona
C34_NoSnapshotForAgentPersona ==
    \A s \in Senders :
        (is_agent_sender(s) /\ s.sender_id \in DOMAIN personality_snapshots)
            => personality_snapshots[s.sender_id] = <<>>

====
